---- MODULE Spec2Model ----
(***************************************************************************)
(* Verification model of MCalculator's simulation core: the geometry       *)
(* primitives, the voxel DDA, the visibility predicate, the attack         *)
(* evaluator, the jitter model, the trial runner, the summarizer, the      *)
(* World scene object and the MainWindow/SimWorker hand-over.              *)
(*                                                                         *)
(* Numbers.  A float64 coordinate is modelled in fixed point: the integer  *)
(* v stands for v / Scale blocks.  Results of divisions and square roots   *)
(* are rounded to that grid.  The start nudges of the DDA (1e-9) and of    *)
(* the slab test (1e-9, with tolerance 1e-12) are smaller than one grid    *)
(* unit; they are modelled by their effect: a positive quantity smaller    *)
(* than every difference of two grid values.  +inf, -inf and NaN are the   *)
(* sentinels Inf, NegInf and NaN.                                          *)
(***************************************************************************)
EXTENDS Integers, Sequences, FiniteSets, TLC

(***************************************************************************)
(* Scalars                                                                 *)
(***************************************************************************)
Scale == 50
Micro == 1000000
Inf == 1000000000
NegInf == 0 - Inf
NaN == 2000000000

IsFinite(v) == v # Inf /\ v # NegInf /\ v # NaN

Abs(v) == IF v < 0 THEN 0 - v ELSE v
Max2(a, b) == IF a > b THEN a ELSE b
Min2(a, b) == IF a < b THEN a ELSE b

\* nearest grid value of a / b (b > 0), halves upwards
RoundDiv(a, b) == (2 * a + b) \div (2 * b)

\* Python's round() of the rational a / b (a >= 0, b > 0): halves to even
PyRound(a, b) ==
    LET q == a \div b
        r == a % b
    IN  IF 2 * r < b THEN q
        ELSE IF 2 * r > b THEN q + 1
        ELSE IF q % 2 = 0 THEN q ELSE q + 1

RECURSIVE SqrtSearch(_, _, _)
SqrtSearch(n, lo, hi) ==
    IF lo >= hi THEN lo
    ELSE LET mid == (lo + hi + 1) \div 2
         IN  IF mid * mid <= n THEN SqrtSearch(n, mid, hi)
             ELSE SqrtSearch(n, lo, mid - 1)

\* floor of the square root
ISqrt(n) == SqrtSearch(n, 0, Min2(n, 40000))

\* math.sqrt rounded to the grid
Sqrt(n) == LET r == ISqrt(n) IN IF n - r * r > r THEN r + 1 ELSE r

clamp(v, lo, hi) == IF v < lo THEN lo ELSE IF v > hi THEN hi ELSE v

(***************************************************************************)
(* Vec3 and AABB                                                           *)
(***************************************************************************)
Vec3(x, y, z) == <<x, y, z>>
VAdd(a, b) == <<a[1] + b[1], a[2] + b[2], a[3] + b[3]>>
VSub(a, b) == <<a[1] - b[1], a[2] - b[2], a[3] - b[3]>>
Dot(a, b) == a[1] * b[1] + a[2] * b[2] + a[3] * b[3]

AABB(mn, mx) == [mn |-> mn, mx |-> mx]

closest_point(box, p) ==
    <<clamp(p[1], box.mn[1], box.mx[1]),
      clamp(p[2], box.mn[2], box.mx[2]),
      clamp(p[3], box.mn[3], box.mx[3])>>

(***************************************************************************)
(* Voxel DDA (core/raycast/voxel_dda.py)                                   *)
(***************************************************************************)
\* math.floor of a grid value, in blocks
Floor(c) == c \div Scale

\* floor of a start coordinate after the 1e-9 nudge along the direction d:
\* only a start exactly on a cell boundary, moving down, changes cell
NudgedFloor(c, d) ==
    IF d < 0 /\ c % Scale = 0 THEN (c \div Scale) - 1 ELSE c \div Scale

step(d) == IF d > 0 THEN 1 ELSE IF d < 0 THEN 0 - 1 ELSE 0

\* t_max of one axis as a numerator over |d| (Inf when the axis is not stepped)
TMaxNum(c, v, d) ==
    IF d > 0 THEN (v + 1) * Scale - c
    ELSE IF d < 0 THEN c - v * Scale
    ELSE Inf

\* t_max_a < t_max_b, for t_max = N / |d| (+inf when d = 0)
TLess(Na, da, Nb, db) ==
    IF da = 0 THEN FALSE
    ELSE IF db = 0 THEN TRUE
    ELSE Na * Abs(db) < Nb * Abs(da)

\* the axis advanced if a tie went to the earlier axis
DDAAxis_earlier_axis_wins(N, d) ==
    IF ~TLess(N[2], d[2], N[1], d[1])
    THEN (IF ~TLess(N[3], d[3], N[1], d[1]) /\ d[1] # 0 THEN 1
          ELSE IF ~TLess(N[3], d[3], N[2], d[2]) /\ d[2] # 0 THEN 2 ELSE 3)
    ELSE (IF ~TLess(N[3], d[3], N[2], d[2]) THEN 2 ELSE 3)

\* the axis the loop body advances: the two nested comparisons of the code
DDAAxis(N, d) ==
    IF TLess(N[1], d[1], N[2], d[2])
    THEN (IF TLess(N[1], d[1], N[3], d[3]) THEN 1 ELSE 3)
    ELSE (IF TLess(N[2], d[2], N[3], d[3]) THEN 2 ELSE 3)

\* the while loop, entered with t <= 1; tested is the list of voxels looked
\* up, steps the list of advances made: the voxel v and the t_max numerators N
\* before the advance, the axis ax advanced and the voxel v2 after it (the new
\* t is N[ax] / |d[ax]|, less the shift of the start nudge)
RECURSIVE DDALoop(_, _, _, _, _, _)
DDALoop(v, N, d, solids, tested, steps) ==
    LET tr == Append(tested, v)
    IN  IF v \in solids THEN [hit |-> TRUE, tested |-> tr, steps |-> steps]
        ELSE LET ax == DDAAxis(N, d)
                 v2 == [v EXCEPT ![ax] = @ + step(d[ax])]
                 N2 == [N EXCEPT ![ax] = @ + Scale]
                 st == Append(steps, [v |-> v, N |-> N, ax |-> ax, v2 |-> v2])
             IN  IF d[ax] # 0 /\ N[ax] <= Abs(d[ax])
                 THEN DDALoop(v2, N2, d, solids, tr, st)
                 ELSE [hit |-> FALSE, tested |-> tr, steps |-> st]

dda_run(p0, p1, solids) ==
    LET d == VSub(p1, p0)
    IN  IF d = <<0, 0, 0>>
        THEN LET v == <<Floor(p0[1]), Floor(p0[2]), Floor(p0[3])>>
             IN  [hit |-> v \in solids, tested |-> <<v>>, steps |-> <<>>]
        ELSE LET v == <<NudgedFloor(p0[1], d[1]), NudgedFloor(p0[2], d[2]),
                        NudgedFloor(p0[3], d[3])>>
                 N == <<TMaxNum(p0[1], v[1], d[1]), TMaxNum(p0[2], v[2], d[2]),
                        TMaxNum(p0[3], v[3], d[3])>>
             IN  DDALoop(v, N, d, solids, <<>>, <<>>)

segment_hits_solid_blocks_dda(p0, p1, solids) == dda_run(p0, p1, solids).hit

\* The function on a segment whose coordinates are whole multiples of 1e-200
\* ("tiny"), or of 1/Scale block ("grid").  Every product of two tiny
\* differences is below the smallest float above zero, so dx*dx + dy*dy + dz*dz
\* is 0.0 for a tiny segment with distinct endpoints, and 1.0 / math.sqrt(0.0)
\* raises ZeroDivisionError; a tiny point plus eps floors to 0.
dda_run_at(unit, p0, p1, solids) ==
    IF unit = "tiny"
    THEN IF VSub(p1, p0) = <<0, 0, 0>>
         THEN [raised |-> FALSE, hit |-> <<0, 0, 0>> \in solids,
               tested |-> <<<<0, 0, 0>>>>, steps |-> <<>>]
         ELSE [raised |-> TRUE, hit |-> FALSE, tested |-> <<>>, steps |-> <<>>]
    ELSE [raised |-> FALSE] @@ dda_run(p0, p1, solids)

\* The function on a segment whose coordinates are whole multiples of half the
\* start nudge, 5e-10 block ("nano"), all within a few units of the origin:
\* eps is nano_eps units, and the only cell boundary within reach of the
\* segment on each axis is the plane 0 between the cells -1 and 0.
nano_eps == 2

\* lines 24-30: the cell of c + eps * da / sqrt(L2), L2 the squared length
nano_floor(c, da, L2) ==
    IF c >= 0
    THEN (IF da < 0 /\ c * c * L2 < nano_eps * nano_eps * da * da THEN 0 - 1 ELSE 0)
    ELSE (IF da > 0 /\ c * c * L2 <= nano_eps * nano_eps * da * da THEN 0 ELSE 0 - 1)

\* lines 36-58: the axes whose next boundary is the plane 0 ahead of the nudged
\* start; t_max of such an axis is |c| / |d| less eps / sqrt(L2), that of
\* every other axis is +inf or about 2e9 / |d|
nano_pending(v, d) == {a \in 1..3 : (d[a] > 0 /\ v[a] = 0 - 1) \/ (d[a] < 0 /\ v[a] = 0)}

\* line 61 after an advance of an axis with start coordinate c and direction
\* da: t = |c| / |da| - eps / sqrt(L2) <= 1
nano_t_in_range(c, da, L2) ==
    \/ Abs(c) <= Abs(da)
    \/ (Abs(c) - Abs(da)) * (Abs(c) - Abs(da)) * L2 <= nano_eps * nano_eps * da * da

\* the while loop: an advance of an axis whose boundary is a block away ends it
RECURSIVE nano_loop(_, _, _, _, _, _)
nano_loop(v, pend, p0, d, solids, tested) ==
    LET tr == Append(tested, v)
    IN  IF v \in solids THEN [hit |-> TRUE, tested |-> tr]
        ELSE IF pend = {} THEN [hit |-> FALSE, tested |-> tr]
        ELSE LET ax == DDAAxis(<<Abs(p0[1]), Abs(p0[2]), Abs(p0[3])>>,
                               [a \in 1..3 |-> IF a \in pend THEN d[a] ELSE 0])
                 v2 == [v EXCEPT ![ax] = @ + step(d[ax])]
             IN  IF nano_t_in_range(p0[ax], d[ax], Dot(d, d))
                 THEN nano_loop(v2, pend \ {ax}, p0, d, solids, tr)
                 ELSE [hit |-> FALSE, tested |-> tr]

\* lines 17-19: math.floor(c + eps) of the zero-length case
nano_floor_eps(c) == IF c + nano_eps >= 0 THEN 0 ELSE 0 - 1

dda_run_nano(p0, p1, solids) ==
    LET d == VSub(p1, p0)
        v == <<nano_floor(p0[1], d[1], Dot(d, d)), nano_floor(p0[2], d[2], Dot(d, d)),
               nano_floor(p0[3], d[3], Dot(d, d))>>
        v0 == <<nano_floor_eps(p0[1]), nano_floor_eps(p0[2]), nano_floor_eps(p0[3])>>
    IN  IF d = <<0, 0, 0>>
        THEN [raised |-> FALSE, hit |-> v0 \in solids, tested |-> <<v0>>]
        ELSE [raised |-> FALSE] @@ nano_loop(v, nano_pending(v, d), p0, d, solids, <<>>)

(***************************************************************************)
(* Segment / AABB slab test (core/geometry/intersection.py)                *)
(*                                                                         *)
(* A parameter value is <<num, den, k>> with den > 0: the rational         *)
(* num / den of the un-nudged segment, plus k times the shift of the       *)
(* start nudge.  The bounds 0 and 1 of the nudged segment are <<0, 1, 1>>  *)
(* and <<1, 1, 0>>.                                                        *)
(***************************************************************************)
TGt(a, b) ==
    \/ a[1] * b[2] > b[1] * a[2]
    \/ a[1] * b[2] = b[1] * a[2] /\ a[3] > b[3]

TMaxOf(a, b) == IF TGt(b, a) THEN b ELSE a
TMinOf(a, b) == IF TGt(a, b) THEN b ELSE a

\* (bound - p0a) / da with a positive denominator
SlabT(bound, p0a, da) ==
    IF da > 0 THEN <<bound - p0a, da, 0>> ELSE <<p0a - bound, 0 - da, 0>>

\* one iteration of the loop over the axes
SlabAxis(st, p0, d, box, axis) ==
    IF ~st.ok THEN st
    ELSE IF d[axis] = 0
    THEN (IF p0[axis] < box.mn[axis] \/ p0[axis] > box.mx[axis]
          THEN [st EXCEPT !.ok = FALSE] ELSE st)
    ELSE LET ta == SlabT(box.mn[axis], p0[axis], d[axis])
             tb == SlabT(box.mx[axis], p0[axis], d[axis])
             t1 == IF TGt(ta, tb) THEN tb ELSE ta
             t2 == IF TGt(ta, tb) THEN ta ELSE tb
             tmin == TMaxOf(st.tmin, t1)
             tmax == TMinOf(st.tmax, t2)
         IN  [ok |-> ~TGt(tmin, tmax), tmin |-> tmin, tmax |-> tmax]

NoHit == [hit |-> FALSE, t_enter |-> <<0, 1>>, t_exit |-> <<0, 1>>]

\* lines 51-54: the result for the interval the three axes left
slab_result(s, zero, one) ==
    IF ~s.ok THEN NoHit
    ELSE IF TGt(zero, s.tmax) \/ TGt(s.tmin, one) THEN NoHit
    ELSE [hit |-> TRUE,
          t_enter |-> IF TGt(zero, s.tmin) THEN <<0, 1>> ELSE <<s.tmin[1], s.tmin[2]>>,
          t_exit |-> IF TGt(s.tmax, one) THEN <<1, 1>> ELSE <<s.tmax[1], s.tmax[2]>>]

slab_axes(p0, d, box, zero, one) ==
    slab_result(
        SlabAxis(SlabAxis(SlabAxis([ok |-> TRUE, tmin |-> zero, tmax |-> one],
                                   p0, d, box, 1), p0, d, box, 2), p0, d, box, 3),
        zero, one)

segment_intersects_aabb(p0, p1, box) ==
    slab_axes(p0, VSub(p1, p0), box,
              <<0, 1, IF p1 # p0 THEN 1 ELSE 0>>, <<1, 1, 0>>)

(***************************************************************************)
(* The same function at the scale of its tolerances.  Here the integer v   *)
(* stands for v / FineScale times 1e-12: eps is eps_fine units and         *)
(* start_nudge is start_nudge_fine units.  A parameter value is the        *)
(* rational <<num, den>> with den > 0.  Two such values with denominators  *)
(* below 2^15 differ by more than 1e-10 unless they are equal, so the      *)
(* "+ eps" of line 48 (1e-12, on t) does not change that comparison.       *)
(***************************************************************************)
FineScale == 5
eps_fine == FineScale
start_nudge_fine == 1000 * FineScale

Rat(n, d) == IF d > 0 THEN <<n, d>> ELSE <<0 - n, 0 - d>>
RatGt(a, b) == a[1] * b[2] > b[1] * a[2]

\* lines 23-26: the start moved by start_nudge along the direction
nudged_start(p0, d, dlen) ==
    IF dlen > 0
    THEN <<p0[1] + RoundDiv(d[1] * start_nudge_fine, dlen),
           p0[2] + RoundDiv(d[2] * start_nudge_fine, dlen),
           p0[3] + RoundDiv(d[3] * start_nudge_fine, dlen)>>
    ELSE p0

\* lines 32-49, one axis; st.returned: line 39 or 49 returned no hit;
\* st.raised: the division of line 41 met da = 0
FineAxis(st, p0, d, box, axis) ==
    IF st.returned \/ st.raised THEN st
    ELSE IF Abs(d[axis]) < eps_fine
    THEN (IF \/ p0[axis] < box.mn[axis] - start_nudge_fine
             \/ p0[axis] > box.mx[axis] + start_nudge_fine
          THEN [st EXCEPT !.returned = TRUE] ELSE st)
    ELSE IF d[axis] = 0 THEN [st EXCEPT !.raised = TRUE]
    ELSE LET ta == Rat(box.mn[axis] - p0[axis], d[axis])
             tb == Rat(box.mx[axis] - p0[axis], d[axis])
             t1 == IF RatGt(ta, tb) THEN tb ELSE ta
             t2 == IF RatGt(ta, tb) THEN ta ELSE tb
             tmin == IF RatGt(t1, st.tmin) THEN t1 ELSE st.tmin
             tmax == IF RatGt(st.tmax, t2) THEN t2 ELSE st.tmax
         IN  [returned |-> RatGt(tmin, tmax), raised |-> FALSE,
              tmin |-> tmin, tmax |-> tmax]

\* lines 51-54
fine_result(st) ==
    IF st.raised
    THEN [hit |-> FALSE, t_enter |-> <<0, 1>>, t_exit |-> <<0, 1>>, raised |-> TRUE]
    ELSE IF st.returned \/ RatGt(<<0, 1>>, st.tmax) \/ RatGt(st.tmin, <<1, 1>>)
    THEN [hit |-> FALSE, t_enter |-> <<0, 1>>, t_exit |-> <<0, 1>>, raised |-> FALSE]
    ELSE [hit |-> TRUE,
          t_enter |-> IF RatGt(<<0, 1>>, st.tmin) THEN <<0, 1>> ELSE st.tmin,
          t_exit |-> IF RatGt(st.tmax, <<1, 1>>) THEN <<1, 1>> ELSE st.tmax,
          raised |-> FALSE]

fine_axes(p0, d, box) ==
    fine_result(
        FineAxis(FineAxis(FineAxis([returned |-> FALSE, raised |-> FALSE,
                                    tmin |-> <<0, 1>>, tmax |-> <<1, 1>>],
                                   p0, d, box, 1), p0, d, box, 2), p0, d, box, 3))

fine_from(p0n, p1, box) == fine_axes(p0n, VSub(p1, p0n), box)

segment_intersects_aabb_fine(p0, p1, box) ==
    fine_from(nudged_start(p0, VSub(p1, p0), Sqrt(Dot(VSub(p1, p0), VSub(p1, p0)))),
              p1, box)

(***************************************************************************)
(* Visibility predicate (core/raycast/visibility.py)                       *)
(* An optional argument is None or Some(value).                            *)
(***************************************************************************)
None == <<>>
Some(v) == <<v>>

\* mutant: the loop without its "continue": the ignore box is tested like the
\* others
RECURSIVE BlockersClear_no_skip(_, _, _, _, _)
BlockersClear_no_skip(attacker, target_point, blockers, ignore, i) ==
    IF i > Len(blockers) THEN TRUE
    ELSE IF segment_intersects_aabb(attacker, target_point, blockers[i]).hit
    THEN FALSE
    ELSE BlockersClear_no_skip(attacker, target_point, blockers, ignore, i + 1)

RECURSIVE BlockersClear(_, _, _, _, _)
BlockersClear(attacker, target_point, blockers, ignore, i) ==
    IF i > Len(blockers) THEN TRUE
    ELSE IF ignore # None /\ blockers[i] = ignore[1]
    THEN BlockersClear(attacker, target_point, blockers, ignore, i + 1)
    ELSE IF segment_intersects_aabb(attacker, target_point, blockers[i]).hit
    THEN FALSE
    ELSE BlockersClear(attacker, target_point, blockers, ignore, i + 1)

\* mutant: "if solid_blocks:" for "if solid_blocks is not None", so that an
\* empty voxel set falls through to the AABB list
is_visible_truthy(attacker, target_point, blockers, solid_blocks, ignore) ==
    IF solid_blocks # None /\ solid_blocks # Some({})
    THEN ~segment_hits_solid_blocks_dda(attacker, target_point, solid_blocks[1])
    ELSE IF blockers = None THEN TRUE
    ELSE BlockersClear(attacker, target_point, blockers[1], ignore, 1)

is_visible(attacker, target_point, blockers, solid_blocks, ignore) ==
    IF solid_blocks # None
    THEN ~segment_hits_solid_blocks_dda(attacker, target_point, solid_blocks[1])
    ELSE IF blockers = None THEN TRUE
    ELSE BlockersClear(attacker, target_point, blockers[1], ignore, 1)

(***************************************************************************)
(* Surface / segment sampler (core/geometry/sampling.py)                   *)
(***************************************************************************)
\* the parameters i / (n - 1) as <<numerator, denominator>>
linspace_01(n) ==
    IF n <= 1 THEN << <<1, 2>> >> ELSE [i \in 1..n |-> <<i - 1, n - 1>>]

\* s * t for a parameter t of linspace_01
Times(s, t) == RoundDiv(s * t[1], t[2])

\* int(round(v * 1e6)) and float(q) * 1e-6
Quant(v) == v * (Micro \div Scale)
Dequant(q) == RoundDiv(q * Scale, Micro)

\* mutant: the count without its floor of two samples
count_for_unclamped(dim, n, max_dim) ==
    IF n <= 1 THEN 1
    ELSE IF Abs(dim) = 0 THEN 1
    ELSE PyRound(max_dim + (n - 1) * Abs(dim), max_dim)

count_for(dim, n, max_dim) ==
    IF n <= 1 THEN 1
    ELSE IF Abs(dim) = 0 THEN 1
    ELSE Max2(2, PyRound(max_dim + (n - 1) * Abs(dim), max_dim))

\* uniq: the first point of each quantized key, in insertion order
RECURSIVE Uniq(_, _, _, _)
Uniq(cands, i, keys, out) ==
    IF i > Len(cands) THEN out
    ELSE LET c == cands[i]
             k == <<Quant(c[1]), Quant(c[2]), Quant(c[3])>>
         IN  IF k \in keys THEN Uniq(cands, i + 1, keys, out)
             ELSE Uniq(cands, i + 1, keys \cup {k}, Append(out, c))

\* the coordinates s * t, t over _linspace_01(cnt)
axis_values(s, cnt) == [i \in 1..cnt |-> Times(s, linspace_01(cnt)[i])]

\* the three pairs of faces, in the order of the three loops
surface_faces(sx, sy, sz, xs, ys, zs) ==
    [k \in 1..(2 * Len(ys) * Len(zs)) |->
        <<IF k % 2 = 1 THEN 0 ELSE sx,
          ys[(((k - 1) \div 2) \div Len(zs)) + 1],
          zs[(((k - 1) \div 2) % Len(zs)) + 1]>>]
    \o
    [k \in 1..(2 * Len(xs) * Len(zs)) |->
        <<xs[(((k - 1) \div 2) \div Len(zs)) + 1],
          IF k % 2 = 1 THEN 0 ELSE sy,
          zs[(((k - 1) \div 2) % Len(zs)) + 1]>>]
    \o
    [k \in 1..(2 * Len(xs) * Len(ys)) |->
        <<xs[(((k - 1) \div 2) \div Len(ys)) + 1],
          ys[(((k - 1) \div 2) % Len(ys)) + 1],
          IF k % 2 = 1 THEN 0 ELSE sz>>]

\* the offsets of a box of size (sx, sy, sz) at resolution n >= 1
offsets_of(sx, sy, sz, n, max_dim) ==
    Uniq(surface_faces(sx, sy, sz,
                       axis_values(sx, count_for(sx, n, max_dim)),
                       axis_values(sy, count_for(sy, n, max_dim)),
                       axis_values(sz, count_for(sz, n, max_dim))),
         1, {}, <<>>)

sizes_of(sx, sy, sz, n) ==
    offsets_of(sx, sy, sz, n, Max2(Max2(Abs(sx), Abs(sy)), Abs(sz)))

\* the body of _surface_offsets_cached
surface_offsets(sx_q, sy_q, sz_q, n0) ==
    sizes_of(Dequant(sx_q), Dequant(sy_q), Dequant(sz_q), Max2(1, n0))

\* functools.lru_cache(maxsize): a list of [key, val], least recently used first
lru_maxsize == 256

CacheIndex(cache, key) ==
    IF \E i \in 1..Len(cache) : cache[i].key = key
    THEN CHOOSE i \in 1..Len(cache) : cache[i].key = key
    ELSE 0

Without(seq, i) == [k \in 1..(Len(seq) - 1) |-> IF k < i THEN seq[k] ELSE seq[k + 1]]

\* mutant: a lookup matches on the box dimensions only, not on n, and takes
\* the least recently used match
cached_value_dims_only(cache, key) ==
    LET hits == {i \in 1..Len(cache) :
                    <<cache[i].key[1], cache[i].key[2], cache[i].key[3]>>
                        = <<key[1], key[2], key[3]>>}
    IN  IF hits # {} THEN cache[CHOOSE i \in hits : \A j \in hits : i <= j].val
        ELSE surface_offsets(key[1], key[2], key[3], key[4])

\* the value a call of _surface_offsets_cached returns
cached_value(cache, key) ==
    LET i == CacheIndex(cache, key)
    IN  IF i > 0 THEN cache[i].val
        ELSE surface_offsets(key[1], key[2], key[3], key[4])

\* the cache after that call
cache_after(cache, key) ==
    LET i == CacheIndex(cache, key)
    IN  IF i > 0 THEN Append(Without(cache, i), cache[i])
        ELSE LET c == Append(cache, [key |-> key,
                         val |-> surface_offsets(key[1], key[2], key[3], key[4])])
             IN  IF Len(c) > lru_maxsize THEN Tail(c) ELSE c

\* the cache key sample_aabb_surface computes
surface_key(box, n) ==
    <<Quant(box.mx[1] - box.mn[1]), Quant(box.mx[2] - box.mn[2]),
      Quant(box.mx[3] - box.mn[3]), Max2(1, n)>>

translate(mn, offs) == [i \in 1..Len(offs) |-> VAdd(mn, offs[i])]

sample_aabb_surface(box, n, cache) ==
    translate(box.mn, cached_value(cache, surface_key(box, n)))

(***************************************************************************)
(* The sampler on a grid finer than its quantization: here the integer v   *)
(* stands for v / SubScale microblocks (1e-6), so that a box size need not *)
(* be a whole number of microblocks.  The cache returns what the cached    *)
(* function computes, so the call is modelled by the function itself.      *)
(***************************************************************************)
SubScale == 10

\* int(round(v * 1e6)) for v >= 0: Python's round, halves to even
QuantSub(v) == PyRound(v, SubScale)
\* float(q) * 1e-6
DequantSub(q) == q * SubScale

\* _add and uniq, lines 49-54
RECURSIVE UniqSub(_, _, _, _)
UniqSub(cands, i, keys, out) ==
    IF i > Len(cands) THEN out
    ELSE LET c == cands[i]
             k == <<QuantSub(c[1]), QuantSub(c[2]), QuantSub(c[3])>>
         IN  IF k \in keys THEN UniqSub(cands, i + 1, keys, out)
             ELSE UniqSub(cands, i + 1, keys \cup {k}, Append(out, c))

\* lines 40-71 for the sizes sx, sy, sz of lines 24-26
offsets_sub(sx, sy, sz, n, max_dim) ==
    UniqSub(surface_faces(sx, sy, sz,
                          axis_values(sx, count_for(sx, n, max_dim)),
                          axis_values(sy, count_for(sy, n, max_dim)),
                          axis_values(sz, count_for(sz, n, max_dim))),
            1, {}, <<>>)

\* nx, ny, nz of lines 40-42
counts_sub(sx, sy, sz, n, max_dim) ==
    <<count_for(sx, n, max_dim), count_for(sy, n, max_dim), count_for(sz, n, max_dim)>>

surface_counts_sub(sx_q, sy_q, sz_q, n0) ==
    counts_sub(DequantSub(sx_q), DequantSub(sy_q), DequantSub(sz_q), Max2(1, n0),
               Max2(Max2(Abs(DequantSub(sx_q)), Abs(DequantSub(sy_q))),
                    Abs(DequantSub(sz_q))))

surface_offsets_sub(sx_q, sy_q, sz_q, n0) ==
    offsets_sub(DequantSub(sx_q), DequantSub(sy_q), DequantSub(sz_q), Max2(1, n0),
                Max2(Max2(Abs(DequantSub(sx_q)), Abs(DequantSub(sy_q))),
                     Abs(DequantSub(sz_q))))

sample_aabb_surface_sub(box, n) ==
    translate(box.mn,
              surface_offsets_sub(QuantSub(box.mx[1] - box.mn[1]),
                                  QuantSub(box.mx[2] - box.mn[2]),
                                  QuantSub(box.mx[3] - box.mn[3]), Max2(1, n)))

\* the cache key of lines 79-89
surface_key_sub(box, n) ==
    <<QuantSub(box.mx[1] - box.mn[1]), QuantSub(box.mx[2] - box.mn[2]),
      QuantSub(box.mx[3] - box.mn[3]), Max2(1, n)>>

\* mutant: a lookup matches on the box dimensions only, not on n
cached_value_sub_dims_only(cache, key) ==
    LET hits == {i \in 1..Len(cache) :
                    <<cache[i].key[1], cache[i].key[2], cache[i].key[3]>>
                        = <<key[1], key[2], key[3]>>}
    IN  IF hits # {} THEN cache[CHOOSE i \in hits : \A j \in hits : i <= j].val
        ELSE surface_offsets_sub(key[1], key[2], key[3], key[4])

\* the value a call of _surface_offsets_cached returns
cached_value_sub(cache, key) ==
    LET i == CacheIndex(cache, key)
    IN  IF i > 0 THEN cache[i].val
        ELSE surface_offsets_sub(key[1], key[2], key[3], key[4])

\* the cache after that call: a hit becomes the most recently used entry, a
\* miss is appended and the least recently used entry dropped when full
cache_after_sub(cache, key) ==
    LET i == CacheIndex(cache, key)
    IN  IF i > 0 THEN Append(Without(cache, i), cache[i])
        ELSE LET c == Append(cache, [key |-> key,
                         val |-> surface_offsets_sub(key[1], key[2], key[3], key[4])])
             IN  IF Len(c) > lru_maxsize THEN Tail(c) ELSE c

sample_aabb_surface_cached_sub(box, n, cache) ==
    translate(box.mn, cached_value_sub(cache, surface_key_sub(box, n)))

sample_segment(p0, p1, n0) ==
    LET n == Max2(1, n0)
        d == VSub(p1, p0)
    IN  IF n = 1 THEN <<p0>>
        ELSE [i \in 1..n |->
                VAdd(p0, <<RoundDiv(d[1] * (i - 1), n - 1),
                           RoundDiv(d[2] * (i - 1), n - 1),
                           RoundDiv(d[3] * (i - 1), n - 1)>>)]

(***************************************************************************)
(* Attack evaluator (core/reach/attack.py)                                 *)
(***************************************************************************)
\* a ratio of two counts, float(a) / float(b), kept to 1 / FracScale
FracScale == 10000
Frac(a, b) == RoundDiv(a * FracScale, b)

Dist2(a, p) == Dot(VSub(a, p), VSub(a, p))

\* round(|c| * off / sqrt(d2)), for one component c of dvec
RECURSIVE ScaledSearch(_, _, _, _, _)
ScaledSearch(c, off, d2, lo, hi) ==
    IF lo >= hi THEN lo
    ELSE LET mid == (lo + hi) \div 2
         IN  IF 4 * c * c * off * off < (2 * mid + 1) * (2 * mid + 1) * d2
             THEN ScaledSearch(c, off, d2, lo, mid)
             ELSE ScaledSearch(c, off, d2, mid + 1, hi)

\* dirn * attack_offset, with dirn = dvec * (1 / dnorm), zero when dnorm = 0
OffsetAlong(dvec, attack_offset) ==
    LET d2 == Dot(dvec, dvec)
        comp(c) == step(c) * ScaledSearch(Abs(c), attack_offset, d2, 0, attack_offset)
    IN  IF d2 = 0 THEN <<0, 0, 0>>
        ELSE <<comp(dvec[1]), comp(dvec[2]), comp(dvec[3])>>

\* mutant: the scan of a point stops at the first sample that sees it
RECURSIVE ScanAttackers_first_seen(_, _, _, _, _, _)
ScanAttackers_first_seen(att_pts, p, solid_blocks, j, best_for_p2, visible_p) ==
    IF j > Len(att_pts) THEN [best |-> best_for_p2, visible |-> visible_p]
    ELSE IF ~is_visible(att_pts[j], p, None, solid_blocks, None)
    THEN ScanAttackers_first_seen(att_pts, p, solid_blocks, j + 1, best_for_p2,
                                  visible_p)
    ELSE [best |-> Min2(Dist2(att_pts[j], p), best_for_p2), visible |-> TRUE]

\* the inner loop over att_pts for one target point p, from index j on
RECURSIVE ScanAttackers(_, _, _, _, _, _)
ScanAttackers(att_pts, p, solid_blocks, j, best_for_p2, visible_p) ==
    IF j > Len(att_pts) THEN [best |-> best_for_p2, visible |-> visible_p]
    ELSE LET a == att_pts[j]
         IN  IF ~is_visible(a, p, None, solid_blocks, None)
             THEN ScanAttackers(att_pts, p, solid_blocks, j + 1, best_for_p2, visible_p)
             ELSE LET dist2 == Dist2(a, p)
                  IN  IF dist2 < best_for_p2
                      THEN (IF dist2 = 0
                            THEN [best |-> 0, visible |-> TRUE]
                            ELSE ScanAttackers(att_pts, p, solid_blocks, j + 1, dist2, TRUE))
                      ELSE ScanAttackers(att_pts, p, solid_blocks, j + 1, best_for_p2, TRUE)

\* mutant: a later point at an equal distance replaces the best one
RECURSIVE ScanTargets_last_wins(_, _, _, _, _, _)
ScanTargets_last_wins(tgt_pts, att_pts, solid_blocks, reach2, i, acc) ==
    IF i > Len(tgt_pts) THEN acc
    ELSE LET p == tgt_pts[i]
             r == ScanAttackers(att_pts, p, solid_blocks, 1, Inf, FALSE)
             better == r.visible /\ r.best <= acc.best2
         IN  ScanTargets_last_wins(tgt_pts, att_pts, solid_blocks, reach2, i + 1,
                 [visible |-> acc.visible + (IF r.visible THEN 1 ELSE 0),
                  reachable_visible |-> acc.reachable_visible
                      + (IF r.visible /\ r.best <= reach2 THEN 1 ELSE 0),
                  best2 |-> IF better THEN r.best ELSE acc.best2,
                  best_p |-> IF better THEN Some(p) ELSE acc.best_p])

\* the outer loop over tgt_pts, from index i on
RECURSIVE ScanTargets(_, _, _, _, _, _)
ScanTargets(tgt_pts, att_pts, solid_blocks, reach2, i, acc) ==
    IF i > Len(tgt_pts) THEN acc
    ELSE LET p == tgt_pts[i]
             r == ScanAttackers(att_pts, p, solid_blocks, 1, Inf, FALSE)
             better == r.visible /\ r.best < acc.best2
         IN  ScanTargets(tgt_pts, att_pts, solid_blocks, reach2, i + 1,
                 [visible |-> acc.visible + (IF r.visible THEN 1 ELSE 0),
                  reachable_visible |-> acc.reachable_visible
                      + (IF r.visible /\ r.best <= reach2 THEN 1 ELSE 0),
                  best2 |-> IF better THEN r.best ELSE acc.best2,
                  best_p |-> IF better THEN Some(p) ELSE acc.best_p])

\* mutant: the two within-reach fractions take each other's denominator
attack_eval_swapped(closest, seg_start, seg_end, total, acc) ==
    [min_dist |-> IF IsFinite(acc.best2) THEN Sqrt(acc.best2) ELSE Inf,
     aim_target |-> IF acc.best_p # None THEN acc.best_p[1] ELSE closest,
     any_visible |-> acc.visible > 0,
     any_reachable |-> acc.reachable_visible > 0,
     visible_frac |-> Frac(acc.visible, total),
     within_reach_of_visible |-> Frac(acc.reachable_visible, total),
     within_reach_of_total |->
         IF acc.visible > 0 THEN Frac(acc.reachable_visible, acc.visible) ELSE 0,
     seg_start |-> seg_start, seg_end |-> seg_end]

\* lines 98-118: the AttackEval of the counts acc of the scan
attack_eval(closest, seg_start, seg_end, total, acc) ==
    [min_dist |-> IF IsFinite(acc.best2) THEN Sqrt(acc.best2) ELSE Inf,
     aim_target |-> IF acc.best_p # None THEN acc.best_p[1] ELSE closest,
     any_visible |-> acc.visible > 0,
     any_reachable |-> acc.reachable_visible > 0,
     visible_frac |-> Frac(acc.visible, total),
     within_reach_of_visible |->
         IF acc.visible > 0 THEN Frac(acc.reachable_visible, acc.visible) ELSE 0,
     within_reach_of_total |-> Frac(acc.reachable_visible, total),
     seg_start |-> seg_start, seg_end |-> seg_end]

\* lines 52-63: the result when there is no target point
no_target_eval(closest, seg_start, seg_end) ==
    [min_dist |-> Inf, aim_target |-> closest,
     any_visible |-> FALSE, any_reachable |-> FALSE,
     visible_frac |-> 0, within_reach_of_visible |-> 0,
     within_reach_of_total |-> 0,
     seg_start |-> seg_start, seg_end |-> seg_end]

NoAcc == [visible |-> 0, reachable_visible |-> 0, best2 |-> Inf, best_p |-> None]

\* mutant: the squared distances are compared with reach, not with its square
evaluate_points_reach_unsquared(closest, seg_start, seg_end, att_pts, tgt_pts, solid_blocks, reach) ==
    IF Len(tgt_pts) = 0 THEN no_target_eval(closest, seg_start, seg_end)
    ELSE attack_eval(closest, seg_start, seg_end, Len(tgt_pts),
             ScanTargets(tgt_pts, att_pts, solid_blocks, reach, 1, NoAcc))

\* lines 51-118, for the two sample lists
evaluate_points(closest, seg_start, seg_end, att_pts, tgt_pts, solid_blocks, reach) ==
    IF Len(tgt_pts) = 0 THEN no_target_eval(closest, seg_start, seg_end)
    ELSE attack_eval(closest, seg_start, seg_end, Len(tgt_pts),
             ScanTargets(tgt_pts, att_pts, solid_blocks, reach * reach, 1, NoAcc))

\* lines 45-49, for the closest point
evaluate_from(closest, attacker_eye, seg_end, target, solid_blocks, reach, surface_samples, attack_samples, cache) ==
    evaluate_points(closest, attacker_eye, seg_end,
                    sample_segment(attacker_eye, seg_end, attack_samples),
                    sample_aabb_surface(target, surface_samples, cache),
                    solid_blocks, reach)

\* lines 37-46: the end of the attack segment
segment_end(attacker_eye, closest, attack_offset) ==
    VAdd(attacker_eye, OffsetAlong(VSub(closest, attacker_eye), attack_offset))

evaluate_attack(attacker_eye, target, solid_blocks, reach, surface_samples, attack_offset, attack_samples, cache) ==
    evaluate_from(closest_point(target, attacker_eye), attacker_eye,
                  segment_end(attacker_eye, closest_point(target, attacker_eye),
                              attack_offset),
                  target, solid_blocks, reach, surface_samples, attack_samples, cache)

(***************************************************************************)
(* The distance test of evaluate_attack at the last bits of a float, for   *)
(* reach = 4.5, one attacker sample a and one target point p that it sees, *)
(* with a - p = (4.5 + i * 2^-50, j * 2^-24, l * 2^-24).  A float near 4.5 *)
(* is written as its distance from 4.5 in steps of 2^-50, the spacing of   *)
(* floats there; a float near 20.25 = 4.5 * 4.5 as its distance from 20.25 *)
(* in steps of 2^-48.  So reach is 0 and reach2 is 0.                      *)
(***************************************************************************)
\* dx * dx: 20.25 + (9 i / 4) * 2^-48 + i^2 * 2^-100, rounded to the nearest
\* float; the last term lifts an exact half above the half
square_near(i) == IF i = 0 THEN 0 ELSE (18 * i + 4) \div 8

\* dist2 of line 84: dy * dy = j^2 * 2^-48 and dz * dz are exact, and so are
\* the two additions
dist2_near(i, j, l) == square_near(i) + j * j + l * l

\* math.sqrt of line 106: sqrt(20.25 + m * 2^-48) is 4.5 + (4 m / 9) * 2^-50
\* to first order, rounded to the nearest float (4 m / 9 is never a half)
sqrt_near(m) == (8 * m + 9) \div 18

\* lines 65-118 for that one pair: visible = total = 1
evaluate_attack_near(i, j, l) ==
    [min_dist |-> sqrt_near(dist2_near(i, j, l)),
     any_visible |-> TRUE,
     any_reachable |-> dist2_near(i, j, l) <= 0,
     visible_frac |-> FracScale,
     within_reach_of_visible |-> IF dist2_near(i, j, l) <= 0 THEN FracScale ELSE 0,
     within_reach_of_total |-> IF dist2_near(i, j, l) <= 0 THEN FracScale ELSE 0]

(***************************************************************************)
(* Scene objects (scene/entities.py, scene/world.py)                       *)
(*                                                                         *)
(* Player and dict objects live on a heap: players maps a Player           *)
(* reference to its fields, dicts maps a dict reference to its content (a  *)
(* function from block keys to the Block's manual flag).  A World is a     *)
(* record of references.                                                   *)
(***************************************************************************)
Player(name, pos) ==
    [name |-> name, pos |-> pos, width |-> 30, height |-> 90, eye |-> 81,
     model |-> "Steve", geometry |-> "geometry.humanoid.custom"]

aabb_at(p, pos) ==
    LET hw == p.width \div 2
    IN  AABB(<<pos[1] - hw, pos[2], pos[3] - hw>>,
             <<pos[1] + hw, pos[2] + p.height, pos[3] + hw>>)

eye_point_at(p, pos) == <<pos[1], pos[2] + p.eye, pos[3]>>

\* Python's int() of a coordinate: truncation towards zero
Trunc(c) == IF c >= 0 THEN c \div Scale ELSE 0 - ((0 - c) \div Scale)

\* the keys range(top, ground_y - 1, -1) visits under a foot position
support_column(pos, ground_y) ==
    {<<Trunc(pos[1]), y, Trunc(pos[3])>> : y \in ground_y..(Trunc(pos[2]) - 1)}

\* World._required_support_keys
required_support_keys(pa, pb, ground_y) ==
    support_column(pa.pos, ground_y) \cup support_column(pb.pos, ground_y)

\* World._ensure_support_under on the content of the blocks dict
ensure_support_under(blocks, p, ground_y) ==
    LET col == support_column(p.pos, ground_y)
    IN  [k \in DOMAIN blocks \cup col |->
            IF k \in DOMAIN blocks THEN blocks[k] ELSE FALSE]

\* World.add_block / World.remove_block on the content of the blocks dict
add_block(blocks, key, manual) ==
    [k \in DOMAIN blocks \cup {key} |-> IF k = key THEN manual ELSE blocks[k]]

remove_block(blocks, key) ==
    [k \in DOMAIN blocks \ {key} |-> blocks[k]]

\* mutant: the loop without the "continue" of manual blocks
cleanup_unused_auto_supports_manual_too(blocks, pa, pb, ground_y) ==
    LET required == required_support_keys(pa, pb, ground_y)
        to_delete == {k \in DOMAIN blocks : k \notin required}
    IN  [k \in DOMAIN blocks \ to_delete |-> blocks[k]]

\* World.cleanup_unused_auto_supports on the content of the blocks dict
cleanup_unused_auto_supports(blocks, pa, pb, ground_y) ==
    LET required == required_support_keys(pa, pb, ground_y)
        to_delete == {k \in DOMAIN blocks : ~blocks[k] /\ k \notin required}
    IN  [k \in DOMAIN blocks \ to_delete |-> blocks[k]]

\* World.solid_block_keys: a new set
solid_block_keys(blocks) == DOMAIN blocks

\* mutant: the clone's blocks attribute is the dict of w itself, not a copy
clone_same_dict(w, ps, ds, pa, pb, bd) ==
    [world |-> [player_a |-> pa, player_b |-> pb, blocks |-> w.blocks,
                ground_y |-> w.ground_y],
     players |-> (pa :> ps[w.player_a]) @@ (pb :> ps[w.player_b]) @@ ps,
     dicts |-> ds]

\* World.clone: two new Player objects and a new dict, filled from w's.
\* pa, pb and bd are the fresh references.
clone(w, ps, ds, pa, pb, bd) ==
    [world |-> [player_a |-> pa, player_b |-> pb, blocks |-> bd,
                ground_y |-> w.ground_y],
     players |-> (pa :> ps[w.player_a]) @@ (pb :> ps[w.player_b]) @@ ps,
     dicts |-> (bd :> ds[w.blocks]) @@ ds]

(***************************************************************************)
(* Jitter model (sim/jitter.py).  numpy's generator is a stream of draws   *)
(* fixed by the seed; its state is the seed and the number of draws made.  *)
(***************************************************************************)
RngRes == 4

\* the n-th raw draw (n = 0, 1, ...) of the stream of a seed, in 0..RngRes-1
Stream(seed, n) == (seed * (n + 1) + (n * n) \div 2 + n \div 3) % RngRes

\* np.random.default_rng(seed)
default_rng(seed) == [seed |-> seed, n |-> 0]

\* JitterSpec.rng
JitterSpec_rng(jitter) == default_rng(jitter.seed)

\* rng.uniform(-j, j): the value drawn
uniform(rng, j) == (0 - j) + (2 * j * Stream(rng.seed, rng.n)) \div RngRes

\* mutant: every axis calls rng.uniform, an axis of range 0 included
sample_degenerate_uniform(jitter, rng) ==
    [v |-> <<uniform(rng, jitter.jx),
             uniform([rng EXCEPT !.n = @ + 1], jitter.jy),
             uniform([rng EXCEPT !.n = @ + 2], jitter.jz)>>,
     rng |-> [rng EXCEPT !.n = @ + 3]]

\* JitterSpec.sample: the offset and the generator after the call
sample(jitter, rng) ==
    LET dx == IF jitter.jx > 0 THEN uniform(rng, jitter.jx) ELSE 0
        r1 == IF jitter.jx > 0 THEN [rng EXCEPT !.n = @ + 1] ELSE rng
        dy == IF jitter.jy > 0 THEN uniform(r1, jitter.jy) ELSE 0
        r2 == IF jitter.jy > 0 THEN [r1 EXCEPT !.n = @ + 1] ELSE r1
        dz == IF jitter.jz > 0 THEN uniform(r2, jitter.jz) ELSE 0
        r3 == IF jitter.jz > 0 THEN [r2 EXCEPT !.n = @ + 1] ELSE r2
    IN  [v |-> <<dx, dy, dz>>, rng |-> r3]

(***************************************************************************)
(* Summary statistics (core/metrics/summary.py).  float64 arithmetic on    *)
(* the sentinels follows IEEE 754: inf - inf and inf * 0 are NaN.          *)
(***************************************************************************)
FAdd(a, b) ==
    IF a = NaN \/ b = NaN THEN NaN
    ELSE IF a = Inf THEN (IF b = NegInf THEN NaN ELSE Inf)
    ELSE IF a = NegInf THEN (IF b = Inf THEN NaN ELSE NegInf)
    ELSE IF b = Inf \/ b = NegInf THEN b
    ELSE a + b

FNeg(a) == IF a = NaN THEN NaN ELSE 0 - a

FSub(a, b) == FAdd(a, FNeg(b))

\* a * (num / den) for a rational 0 <= num / den
FMulRat(a, num, den) ==
    IF a = NaN THEN NaN
    ELSE IF a = Inf \/ a = NegInf THEN (IF num = 0 THEN NaN ELSE a)
    ELSE RoundDiv(a * num, den)

\* np.add.reduce: the sum of xs[lo..hi], halves added pairwise
RECURSIVE FSum(_, _, _)
FSum(xs, lo, hi) ==
    IF lo > hi THEN 0
    ELSE IF lo = hi THEN xs[lo]
    ELSE FAdd(FSum(xs, lo, (lo + hi) \div 2), FSum(xs, (lo + hi) \div 2 + 1, hi))

\* np.mean of a non-empty array
Mean(xs) ==
    IF IsFinite(FSum(xs, 1, Len(xs))) THEN RoundDiv(FSum(xs, 1, Len(xs)), Len(xs))
    ELSE FSum(xs, 1, Len(xs))

\* np.partition: the k-th smallest element (k = 1, 2, ...) of an array
\* without NaN
kth_smallest(xs, k) ==
    CHOOSE v \in {xs[i] : i \in 1..Len(xs)} :
        /\ Cardinality({i \in 1..Len(xs) : xs[i] < v}) < k
        /\ k <= Cardinality({i \in 1..Len(xs) : xs[i] <= v})

\* numpy's _lerp(a, b, t) for t = num / den
Lerp(a, b, num, den) ==
    LET diff == FSub(b, a)
    IN  IF 2 * num >= den
        THEN FSub(b, FMulRat(diff, den - num, den))
        ELSE FAdd(a, FMulRat(diff, num, den))

\* mutant: the two neighbours taken from the array as given, not from its
\* sorted order
percentile_unsorted(xs, q) ==
    LET h == (Len(xs) - 1) * q
        lo == h \div 100
        hi == Min2(lo + 1, Len(xs) - 1)
    IN  Lerp(xs[lo + 1], xs[hi + 1], h % 100, 100)

\* np.percentile(xs, q) of a non-empty array, linear interpolation
percentile(xs, q) ==
    LET h == (Len(xs) - 1) * q
        lo == h \div 100
        hi == Min2(lo + 1, Len(xs) - 1)
    IN  Lerp(kth_smallest(xs, lo + 1), kth_smallest(xs, hi + 1), h % 100, 100)

\* mutant: the hit probability counts the trials that saw the target, not
\* those that could reach it
summarize_hit_visible(results, reach) ==
    LET n == Len(results)
        col(f(_)) == [i \in 1..n |-> f(results[i])]
        dist(r) == r.min_dist
        surp(r) == r.surplus
        hit(r) == IF IsFinite(r.min_dist) THEN FracScale ELSE 0
        vis(r) == r.visible_frac
        occ(r) == FracScale - r.visible_frac
        wvis(r) == r.within_reach_of_visible
        wtot(r) == r.within_reach_of_total
    IN  IF n = 0
        THEN [n |-> 0, reach |-> reach, hit_prob_any |-> 0,
              mean_dist |-> NaN, mean_surplus |-> NaN,
              p10_dist |-> NaN, p50_dist |-> NaN, p90_dist |-> NaN,
              mean_visible_frac |-> NaN, mean_occluded_frac |-> NaN,
              mean_within_reach_of_visible |-> NaN,
              mean_within_reach_of_total |-> NaN]
        ELSE [n |-> n, reach |-> reach, hit_prob_any |-> Mean(col(hit)),
              mean_dist |-> Mean(col(dist)), mean_surplus |-> Mean(col(surp)),
              p10_dist |-> percentile(col(dist), 10),
              p50_dist |-> percentile(col(dist), 50),
              p90_dist |-> percentile(col(dist), 90),
              mean_visible_frac |-> Mean(col(vis)),
              mean_occluded_frac |-> Mean(col(occ)),
              mean_within_reach_of_visible |-> Mean(col(wvis)),
              mean_within_reach_of_total |-> Mean(col(wtot))]

summarize(results, reach) ==
    LET n == Len(results)
        col(f(_)) == [i \in 1..n |-> f(results[i])]
        dist(r) == r.min_dist
        surp(r) == r.surplus
        hit(r) == IF r.reachable_any THEN FracScale ELSE 0
        vis(r) == r.visible_frac
        occ(r) == FracScale - r.visible_frac
        wvis(r) == r.within_reach_of_visible
        wtot(r) == r.within_reach_of_total
    IN  IF n = 0
        THEN [n |-> 0, reach |-> reach, hit_prob_any |-> 0,
              mean_dist |-> NaN, mean_surplus |-> NaN,
              p10_dist |-> NaN, p50_dist |-> NaN, p90_dist |-> NaN,
              mean_visible_frac |-> NaN, mean_occluded_frac |-> NaN,
              mean_within_reach_of_visible |-> NaN,
              mean_within_reach_of_total |-> NaN]
        ELSE [n |-> n, reach |-> reach, hit_prob_any |-> Mean(col(hit)),
              mean_dist |-> Mean(col(dist)), mean_surplus |-> Mean(col(surp)),
              p10_dist |-> percentile(col(dist), 10),
              p50_dist |-> percentile(col(dist), 50),
              p90_dist |-> percentile(col(dist), 90),
              mean_visible_frac |-> Mean(col(vis)),
              mean_occluded_frac |-> Mean(col(occ)),
              mean_within_reach_of_visible |-> Mean(col(wvis)),
              mean_within_reach_of_total |-> Mean(col(wtot))]

(***************************************************************************)
(* Trial runner (sim/runner.py)                                            *)
(***************************************************************************)
\* line 35
stride_div == 200
stride(trials) == Max2(1, trials \div stride_div)

\* mutant: the final trial reports only when the stride divides its index
progress_due_stride_only(i, trials) == i % stride(trials) = 0

\* line 73: whether trial i reports progress
progress_due(i, trials) == i % stride(trials) = 0 \/ i = trials - 1

\* a percentage is kept to 1 / PctScale
PctScale == 100
\* mutant: the percentage without the base of the direction
progress_pct_span_only(progress_base, progress_span, i, trials) ==
    RoundDiv(progress_span * PctScale * (i + 1), trials)

progress_pct(progress_base, progress_span, i, trials) ==
    progress_base * PctScale + RoundDiv(progress_span * PctScale * (i + 1), trials)

\* mutant: the surplus taken the other way round, min_dist - reach
trial_result_surplus_reversed(ev, cfg) ==
    [min_dist |-> ev.min_dist,
     reachable_any |-> ev.any_reachable,
     surplus |-> IF IsFinite(ev.min_dist) THEN ev.min_dist - cfg.reach ELSE NegInf,
     visible_frac |-> ev.visible_frac,
     within_reach_of_visible |-> ev.within_reach_of_visible,
     within_reach_of_total |-> ev.within_reach_of_total]

\* lines 60-71: the TrialResult of an AttackEval
trial_result(ev, cfg) ==
    [min_dist |-> ev.min_dist,
     reachable_any |-> ev.any_reachable,
     surplus |-> IF IsFinite(ev.min_dist) THEN cfg.reach - ev.min_dist ELSE NegInf,
     visible_frac |-> ev.visible_frac,
     within_reach_of_visible |-> ev.within_reach_of_visible,
     within_reach_of_total |-> ev.within_reach_of_total]

\* lines 44-58: the evaluation of one trial for the two jitter samples ja, jb;
\* l holds the locals of _one_direction, attacker and defender the Players
trial_at(l, attacker, defender, cfg, cache, ja, jb) ==
    [ev |-> evaluate_attack(eye_point_at(attacker, VAdd(l.base_a, ja.v)),
                            aabb_at(defender, VAdd(l.base_b, jb.v)),
                            Some(l.solids), cfg.reach, cfg.surface_samples,
                            cfg.attack_offset, cfg.attack_samples, cache),
     rng |-> jb.rng,
     key |-> surface_key(aabb_at(defender, VAdd(l.base_b, jb.v)), cfg.surface_samples)]

\* lines 41-42: the second sample continues the generator of the first
second_sample(l, attacker, defender, jitter, cfg, cache, ja) ==
    trial_at(l, attacker, defender, cfg, cache, ja, sample(jitter, ja.rng))

\* lines 41-58: the jitter draws and the evaluation of one trial
trial_eval(l, attacker, defender, jitter, cfg, cache) ==
    second_sample(l, attacker, defender, jitter, cfg, cache, sample(jitter, l.rng))

(***************************************************************************)
(* State                                                                   *)
(***************************************************************************)
VARIABLES
    players,    \* heap: Player reference -> fields
    dicts,      \* heap: dict reference -> block key -> manual flag
    world,      \* MainWindow.world: the live World (references into the heap)
    worker_ref, \* MainWindow._worker is not None
    queue,      \* finished_payload signals queued for the main thread
    zombies,    \* threads of workers MainWindow no longer refers to, still running
    pc,         \* position of the thread that executes run_sim
    args,       \* run_sim's arguments: world, jitter, cfg, has_stop, has_cb
    stop,       \* the value the stop flag returns (SimWorker._stop)
    loc,        \* locals of the running _one_direction
    res_ab,     \* run_sim's local res_ab
    ret,        \* the tuple run_sim returned: None or Some(tuple)
    progress,   \* the progress_cb calls of this run, in order
    cache,      \* the lru_cache of _surface_offsets_cached
    hist,       \* history of this run: stop-flag polls and generator draws
    ref,        \* a remembered earlier complete run: None or Some(run)
    snap0,      \* the live world's value when the snapshot was cloned
    fin,        \* arguments of the function under test
    fout        \* its result: None or Some(result)

vars == <<players, dicts, world, worker_ref, queue, zombies, pc, args, stop,
          loc, res_ab, ret, progress, cache, hist, ref, snap0, fin, fout>>

heapVars == <<players, dicts, world>>
uiVars == <<worker_ref, queue, zombies>>
runVars == <<pc, args, stop, loc, res_ab, ret, progress, hist>>
funVars == <<fin, fout>>

(***************************************************************************)
(* Bounds and input sets                                                   *)
(***************************************************************************)
MaxSeed == 2
MaxTrials == 2
MaxSurface == 2

Seeds == 1..MaxSeed
JitterRanges == {<<0, 0, 0>>, <<25, 0, 25>>}
JitterSpec(r, seed) == [jx |-> r[1], jy |-> r[2], jz |-> r[3], seed |-> seed]
Jitters == {JitterSpec(r, seed) : r \in JitterRanges, seed \in Seeds}

\* SimConfig; reach 3.0 and attack_offset 0.8 are the defaults
SimConfig(trials, surface_samples) ==
    [reach |-> 150, trials |-> trials, surface_samples |-> surface_samples,
     attack_offset |-> 40, attack_samples |-> 2]
Cfgs == {SimConfig(t, n) : t \in 1..MaxTrials, n \in 1..MaxSurface}

\* foot positions the panel can hold, and the block the panel can add or remove
PosA == {<<25, 0, 25>>}
PosB == {<<125, 0, 25>>, <<125, 50, 25>>}
BlockKeys == {<<1, 1, 0>>}

\* the value of a World: what a run reads of it
world_value(w, ps, ds) ==
    [player_a |-> ps[w.player_a], player_b |-> ps[w.player_b],
     keys |-> DOMAIN ds[w.blocks], ground_y |-> w.ground_y]

NoLoc ==
    [dir |-> "", rng |-> default_rng(0), attacker |-> 0, defender |-> 0,
     base_a |-> <<0, 0, 0>>, base_b |-> <<0, 0, 0>>, solids |-> {},
     results |-> <<>>, i |-> 0]

NoHist == [polls |-> <<>>, draws |-> <<>>]

\* World.default_world's shape: two players, supports rebuilt
InitHeap ==
    /\ players = (1 :> Player("A", <<25, 0, 25>>)) @@ (2 :> Player("B", <<125, 0, 25>>))
    /\ dicts = (1 :> ensure_support_under(
                        ensure_support_under(<<>>, Player("A", <<25, 0, 25>>), 0),
                        Player("B", <<125, 0, 25>>), 0))
    /\ world = [player_a |-> 1, player_b |-> 2, blocks |-> 1, ground_y |-> 0]

InitRun ==
    /\ pc = "idle"
    /\ args = [world |-> world, jitter |-> JitterSpec(<<0, 0, 0>>, 1),
               cfg |-> SimConfig(1, 1), has_stop |-> FALSE, has_cb |-> FALSE]
    /\ stop = FALSE
    /\ loc = NoLoc
    /\ res_ab = <<>>
    /\ ret = None
    /\ progress = <<>>
    /\ hist = NoHist

InitRest ==
    /\ worker_ref = FALSE
    /\ queue = <<>>
    /\ zombies = 0
    /\ cache = <<>>
    /\ ref = None
    /\ snap0 = None
    /\ fin = None
    /\ fout = None

(***************************************************************************)
(* run_sim, step by step (sim/runner.py)                                   *)
(***************************************************************************)
\* whether a poll of the stop flag (lines 38 and 86) returns true
stop_polled == args.has_stop /\ stop

\* one progress_cb call appended, when a callback was supplied
Report(pct, label, done, total) ==
    IF args.has_cb
    THEN Append(progress, [pct |-> pct, label |-> label, done |-> done, total |-> total])
    ELSE progress

\* lines 22-35: the prologue of _one_direction
DirBegin(dir) ==
    LET w == args.world
        attacker == IF dir = "ab" THEN w.player_a ELSE w.player_b
        defender == IF dir = "ab" THEN w.player_b ELSE w.player_a
        l == [dir |-> dir, rng |-> JitterSpec_rng(args.jitter),
              attacker |-> attacker, defender |-> defender,
              base_a |-> players[attacker].pos, base_b |-> players[defender].pos,
              solids |-> solid_block_keys(dicts[w.blocks]),
              results |-> <<>>, i |-> 0]
    IN  /\ loc' = l
        /\ pc' = IF args.cfg.trials > 0 THEN dir
                 ELSE IF dir = "ab" THEN "mid" ELSE "fin"
        /\ res_ab' = IF dir = "ab" THEN <<>> ELSE res_ab
        /\ UNCHANGED <<args, stop, ret, progress, hist, cache>>

BeginAB == pc = "call" /\ DirBegin("ab")
BeginBA == pc = "ba0" /\ DirBegin("ba")

\* where _one_direction returns to
AfterDir(dir) == IF dir = "ab" THEN "mid" ELSE "fin"

\* mutant: the flag is looked at after the trial was drawn and evaluated
TrialBreak_after(t, results) ==
    /\ loc' = [loc EXCEPT !.rng = t.rng, !.results = results, !.i = @ + 1]
    /\ cache' = cache_after(cache, t.key)
    /\ hist' = [hist EXCEPT
           !.polls = Append(@, [at |-> pc, i |-> loc.i, n |-> t.rng.n, v |-> TRUE]),
           !.draws = @ \o [k \in 1..(t.rng.n - loc.rng.n) |->
                              [dir |-> pc, i |-> loc.i, idx |-> loc.rng.n + k - 1]]]
    /\ res_ab' = IF pc = "ab" THEN results ELSE res_ab
    /\ pc' = AfterDir(pc)
    /\ UNCHANGED <<args, stop, ret, progress>>

TrialBreak_evaluated(t) ==
    TrialBreak_after(t, Append(loc.results, trial_result(t.ev, args.cfg)))

TrialBreak_late ==
    /\ pc \in {"ab", "ba"}
    /\ stop_polled
    /\ TrialBreak_evaluated(trial_eval(loc, players[loc.attacker], players[loc.defender],
                                       args.jitter, args.cfg, cache))

\* lines 37-39: the poll at the top of iteration loc.i finds the flag set
TrialBreak ==
    /\ pc \in {"ab", "ba"}
    /\ stop_polled
    /\ hist' = [hist EXCEPT !.polls = Append(@, [at |-> pc, i |-> loc.i,
                                                  n |-> loc.rng.n, v |-> TRUE])]
    /\ res_ab' = IF pc = "ab" THEN loc.results ELSE res_ab
    /\ pc' = AfterDir(pc)
    /\ UNCHANGED <<args, stop, loc, ret, progress, cache>>

\* lines 60-75: the rest of iteration i, for the evaluation t of the trial
TrialDone(i, trials, t, results) ==
    /\ loc' = [loc EXCEPT !.rng = t.rng, !.results = results, !.i = i + 1]
    /\ cache' = cache_after(cache, t.key)
    /\ hist' = [hist EXCEPT
           !.polls = IF args.has_stop
                     THEN Append(@, [at |-> pc, i |-> i, n |-> loc.rng.n, v |-> FALSE])
                     ELSE @,
           !.draws = @ \o [k \in 1..(t.rng.n - loc.rng.n) |->
                              [dir |-> pc, i |-> i, idx |-> loc.rng.n + k - 1]]]
    /\ progress' = IF progress_due(i, trials)
                   THEN Report(progress_pct(IF pc = "ab" THEN 0 ELSE 50, 50, i, trials),
                               IF pc = "ab" THEN "A->B" ELSE "B->A", i + 1, trials)
                   ELSE progress
    /\ res_ab' = IF pc = "ab" /\ i + 1 = trials THEN results ELSE res_ab
    /\ pc' = IF i + 1 = trials THEN AfterDir(pc) ELSE pc
    /\ UNCHANGED <<args, stop, ret>>

TrialAppend(t) ==
    TrialDone(loc.i, args.cfg.trials, t, Append(loc.results, trial_result(t.ev, args.cfg)))

\* lines 37-75: iteration loc.i runs to its end
TrialStep ==
    /\ pc \in {"ab", "ba"}
    /\ ~stop_polled
    /\ TrialAppend(trial_eval(loc, players[loc.attacker], players[loc.defender],
                              args.jitter, args.cfg, cache))

\* run_sim's return value
Returned(stats_ab, stats_ba, rab, rba) ==
    Some([stats_ab |-> stats_ab, stats_ba |-> stats_ba, res_ab |-> rab, res_ba |-> rba])

\* lines 84-89: the poll between the directions finds the flag set
MidStopped ==
    /\ pc = "mid"
    /\ stop_polled
    /\ hist' = [hist EXCEPT !.polls = Append(@, [at |-> "mid", i |-> Len(res_ab),
                                                  n |-> loc.rng.n, v |-> TRUE])]
    /\ progress' = Report(50 * PctScale, "stopped", Len(res_ab), args.cfg.trials)
    /\ ret' = Returned(summarize(res_ab, args.cfg.reach),
                       summarize(<<>>, args.cfg.reach), res_ab, <<>>)
    /\ pc' = "ret"
    /\ loc' = NoLoc
    /\ UNCHANGED <<args, stop, res_ab, cache>>

\* lines 84-91: the poll finds it clear, B->A is called
MidContinue ==
    /\ pc = "mid"
    /\ ~stop_polled
    /\ hist' = [hist EXCEPT !.polls =
                   IF args.has_stop
                   THEN Append(@, [at |-> "mid", i |-> Len(res_ab), n |-> loc.rng.n,
                                   v |-> FALSE])
                   ELSE @]
    /\ pc' = "ba0"
    /\ loc' = NoLoc
    /\ UNCHANGED <<args, stop, res_ab, ret, progress, cache>>

\* lines 92-97
Finish ==
    /\ pc = "fin"
    /\ progress' = Report(100 * PctScale, "done", args.cfg.trials, args.cfg.trials)
    /\ ret' = Returned(summarize(res_ab, args.cfg.reach),
                       summarize(loc.results, args.cfg.reach), res_ab, loc.results)
    /\ pc' = "ret"
    /\ loc' = NoLoc
    /\ UNCHANGED <<args, stop, res_ab, hist, cache>>

\* what a step of run_sim leaves alone
RunFrame == UNCHANGED <<heapVars, uiVars, ref, snap0, funVars>>

RunStep ==
    \/ BeginAB /\ RunFrame
    \/ BeginBA /\ RunFrame
    \/ TrialBreak /\ RunFrame
    \/ TrialStep /\ RunFrame
    \/ MidStopped /\ RunFrame
    \/ MidContinue /\ RunFrame
    \/ Finish /\ RunFrame

(***************************************************************************)
(* SpecRun: run_sim called directly, again and again, on one World         *)
(***************************************************************************)
\* no poll of the stop flag returned true
Uncancelled == \A k \in 1..Len(hist.polls) : ~hist.polls[k].v

\* what a run's results may depend on: the World's value at the call, the
\* JitterSpec and the SimConfig
run_inputs == [world |-> snap0[1], jitter |-> args.jitter, cfg |-> args.cfg]

Call ==
    /\ pc \in {"idle", "ret"}
    /\ \E j \in Jitters, c \in Cfgs, cb \in BOOLEAN :
          args' = [world |-> world, jitter |-> j, cfg |-> c,
                   has_stop |-> cb, has_cb |-> cb]
    /\ stop' = FALSE
    /\ pc' = "call"
    /\ ret' = None
    /\ progress' = <<>>
    /\ hist' = NoHist
    /\ snap0' = Some(world_value(world, players, dicts))
    /\ UNCHANGED <<heapVars, uiVars, loc, res_ab, cache, ref, funVars>>

\* the caller's stop flag turns true, and stays true
SetStop ==
    /\ pc \in {"call", "ab", "mid", "ba0", "ba", "fin"}
    /\ args.has_stop
    /\ ~stop
    /\ stop' = TRUE
    /\ UNCHANGED <<heapVars, uiVars, pc, args, loc, res_ab, ret, progress, cache,
                   hist, ref, snap0, funVars>>

\* the caller edits the World between two calls
EditWorld ==
    /\ pc \in {"idle", "ret"}
    /\ \E k \in BlockKeys :
          dicts' = [dicts EXCEPT ![world.blocks] =
                       IF k \in DOMAIN @ THEN remove_block(@, k)
                       ELSE add_block(@, k, TRUE)]
    /\ UNCHANGED <<players, world, uiVars, runVars, cache, ref, snap0, funVars>>

InitRunSpec == InitHeap /\ InitRun /\ InitRest

NextRun == Call \/ SetStop \/ EditWorld \/ RunStep

SpecRun == InitRunSpec /\ [][NextRun]_vars

(***************************************************************************)
(* SpecTwoRuns: run_sim called again and again with no stop flag; one      *)
(* earlier run is remembered                                               *)
(***************************************************************************)
CallPlain ==
    /\ pc \in {"idle", "ret"}
    /\ \E j \in Jitters, c \in Cfgs :
          args' = [world |-> world, jitter |-> j, cfg |-> c,
                   has_stop |-> FALSE, has_cb |-> FALSE]
    /\ stop' = FALSE
    /\ pc' = "call"
    /\ ret' = None
    /\ progress' = <<>>
    /\ hist' = NoHist
    /\ ref' = IF ref = None THEN ref ELSE Some([ref[1] EXCEPT !.later = TRUE])
    /\ snap0' = Some(world_value(world, players, dicts))
    /\ UNCHANGED <<heapVars, uiVars, loc, res_ab, cache, funVars>>

\* history: keep a returned run to compare later runs with; later turns true
\* once another call has been made
Remember ==
    /\ pc = "ret"
    /\ ref = None
    /\ ref' = Some([in |-> run_inputs, res_ab |-> ret[1].res_ab,
                    res_ba |-> ret[1].res_ba, later |-> FALSE])
    /\ UNCHANGED <<heapVars, uiVars, runVars, cache, snap0, funVars>>

NextTwoRuns ==
    \/ CallPlain
    \/ Remember
    \/ EditWorld
    \/ BeginAB /\ RunFrame
    \/ BeginBA /\ RunFrame
    \/ TrialStep /\ RunFrame
    \/ MidContinue /\ RunFrame
    \/ Finish /\ RunFrame

SpecTwoRuns == InitRunSpec /\ [][NextTwoRuns]_vars

(***************************************************************************)
(* Properties of run_sim                                                   *)
(***************************************************************************)
\* a later run has returned whose World value, JitterSpec and SimConfig are
\* those of the remembered run
SameInputsAgain ==
    /\ pc = "ret"
    /\ ref # None
    /\ ref[1].later
    /\ ref[1].in = run_inputs

\* C1: two runs of run_sim with no stop flag and no callback, on the same
\* World value, JitterSpec and SimConfig, return the same per-trial result
\* lists in both directions, whatever ran in between and for every seed.
C1_Determinism ==
    SameInputsAgain =>
        /\ ret[1].res_ab = ref[1].res_ab
        /\ ret[1].res_ba = ref[1].res_ba

\* a second run with jitter in force and several trials repeated the
\* remembered one, after runs at another sampling resolution filled the cache
C1_Witness ==
    /\ SameInputsAgain
    /\ args.jitter.jx > 0
    /\ args.cfg.trials = MaxTrials
    /\ Len(cache) >= 2
    /\ ret[1].res_ab[1] # ret[1].res_ab[2]
    /\ ret[1].res_ab # ret[1].res_ba

(***************************************************************************)
(* What an undisturbed run computes, trial by trial                        *)
(***************************************************************************)
\* the number of generator draws one JitterSpec.sample call makes
draws_per_sample(jitter) ==
    (IF jitter.jx > 0 THEN 1 ELSE 0) + (IF jitter.jy > 0 THEN 1 ELSE 0)
        + (IF jitter.jz > 0 THEN 1 ELSE 0)

\* the offset JitterSpec.sample returns when the generator stands at draw first
sample_from(jitter, first) ==
    <<IF jitter.jx > 0
        THEN uniform([seed |-> jitter.seed, n |-> first], jitter.jx) ELSE 0,
      IF jitter.jy > 0
        THEN uniform([seed |-> jitter.seed,
                      n |-> first + (IF jitter.jx > 0 THEN 1 ELSE 0)], jitter.jy)
        ELSE 0,
      IF jitter.jz > 0
        THEN uniform([seed |-> jitter.seed,
                      n |-> first + (IF jitter.jx > 0 THEN 1 ELSE 0)
                                  + (IF jitter.jy > 0 THEN 1 ELSE 0)], jitter.jz)
        ELSE 0>>

\* trial k (k = 0, 1, ...) of a direction on the World value wv, the
\* direction's generator freshly seeded, the cache empty
expected_eval(wv, attacker, defender, jitter, cfg, k) ==
    evaluate_attack(
        eye_point_at(attacker,
            VAdd(attacker.pos, sample_from(jitter, 2 * k * draws_per_sample(jitter)))),
        aabb_at(defender,
            VAdd(defender.pos,
                 sample_from(jitter, (2 * k + 1) * draws_per_sample(jitter)))),
        Some(wv.keys), cfg.reach, cfg.surface_samples, cfg.attack_offset,
        cfg.attack_samples, <<>>)

expected_trial(wv, attacker, defender, jitter, cfg, k) ==
    trial_result(expected_eval(wv, attacker, defender, jitter, cfg, k), cfg)

\* the first n TrialResults of a direction
expected_results(wv, dir, jitter, cfg, n) ==
    [k \in 1..n |->
        IF dir = "ab"
        THEN expected_trial(wv, wv.player_a, wv.player_b, jitter, cfg, k - 1)
        ELSE expected_trial(wv, wv.player_b, wv.player_a, jitter, cfg, k - 1)]

(***************************************************************************)
(* Properties of a run that can be cancelled (SpecRun)                     *)
(***************************************************************************)
\* C2: one generator serves the whole run: the draws of A->B and then of
\* B->A are the consecutive draws 0, 1, 2, ... of the stream of the seed, so
\* B->A goes on where A->B stopped.
C2_OneGeneratorForBothDirections ==
    \A k \in 1..Len(hist.draws) : hist.draws[k].idx = k - 1

\* the polls of the stop flag inside the A->B loop
polls_ab == {k \in 1..Len(hist.polls) : hist.polls[k].at = "ab"}

\* the run returned after an A->B poll found the flag set
StoppedInAB == pc = "ret" /\ \E k \in polls_ab : hist.polls[k].v

\* the trial index at which A->B first saw the flag set
stopped_at == hist.polls[CHOOSE k \in polls_ab : hist.polls[k].v].i

\* C3: the A->B loop polls the stop flag once per trial, at the top of the
\* trial and before its jitter draws.  When the flag is first seen set at
\* trial k of A->B, run_sim returns the k results of trials 0..k-1, with the
\* values an undisturbed run gives them, stats_ab summarising them, an empty
\* B->A list, stats_ba = summarize([]), and B->A drew and evaluated nothing.
C3_CancelDuringAB ==
    /\ \A k \in polls_ab :
          /\ hist.polls[k].i = k - 1
          /\ \A d \in 1..Len(hist.draws) :
                hist.draws[d].dir = "ab" /\ hist.draws[d].i >= hist.polls[k].i
                    => hist.draws[d].idx >= hist.polls[k].n
    /\ args.has_stop =>
          \A d \in 1..Len(hist.draws) :
              hist.draws[d].dir = "ab" => hist.draws[d].i + 1 \in polls_ab
    /\ StoppedInAB =>
          /\ ret[1].res_ab = expected_results(snap0[1], "ab", args.jitter, args.cfg,
                                              stopped_at)
          /\ ret[1].stats_ab = summarize(ret[1].res_ab, args.cfg.reach)
          /\ ret[1].res_ba = <<>>
          /\ ret[1].stats_ba = summarize(<<>>, args.cfg.reach)
          /\ \A d \in 1..Len(hist.draws) :
                hist.draws[d].dir = "ab" /\ hist.draws[d].i < stopped_at
          /\ \A k \in 1..Len(hist.polls) : hist.polls[k].at # "ba"

\* A->B was cancelled after one jittered trial and before the next
C3_Witness ==
    /\ StoppedInAB
    /\ stopped_at = 1
    /\ args.cfg.trials > 1
    /\ args.jitter.jx > 0
    /\ Len(ret[1].res_ab) = 1
    /\ IsFinite(ret[1].res_ab[1].min_dist)

\* the TrialResult of the evaluation at the players' own positions, no
\* jitter added, for the direction attacker -> defender
unjittered_trial(wv, attacker, defender, cfg) ==
    trial_result(
        evaluate_attack(eye_point_at(attacker, attacker.pos),
                        aabb_at(defender, defender.pos), Some(wv.keys), cfg.reach,
                        cfg.surface_samples, cfg.attack_offset, cfg.attack_samples,
                        <<>>),
        cfg)

\* a list of results and its summary are those of cfg.trials copies of t
all_equal_to(res, stats, t, cfg) ==
    /\ res = [k \in 1..cfg.trials |-> t]
    /\ stats.n = cfg.trials
    /\ stats.p10_dist = t.min_dist
    /\ stats.p50_dist = t.min_dist
    /\ stats.p90_dist = t.min_dist

zero_jitter_run ==
    /\ pc = "ret"
    /\ args.jitter.jx = 0 /\ args.jitter.jy = 0 /\ args.jitter.jz = 0
    /\ Uncancelled

\* C17: with jx = jy = jz = 0 and no cancellation, every TrialResult of
\* either direction is the one of the unjittered evaluation, stats.n is
\* cfg.trials in both directions, and p10_dist, p50_dist and p90_dist all
\* equal that trial's min_dist.
C17_ZeroJitterCollapses ==
    zero_jitter_run =>
        /\ all_equal_to(ret[1].res_ab, ret[1].stats_ab,
                        unjittered_trial(snap0[1], snap0[1].player_a,
                                         snap0[1].player_b, args.cfg), args.cfg)
        /\ all_equal_to(ret[1].res_ba, ret[1].stats_ba,
                        unjittered_trial(snap0[1], snap0[1].player_b,
                                         snap0[1].player_a, args.cfg), args.cfg)

\* the AttackEval of trial k (k = 1, 2, ...) of a direction of this run
eval_of_trial(dir, k) ==
    IF dir = "ab"
    THEN expected_eval(snap0[1], snap0[1].player_a, snap0[1].player_b,
                       args.jitter, args.cfg, k - 1)
    ELSE expected_eval(snap0[1], snap0[1].player_b, snap0[1].player_a,
                       args.jitter, args.cfg, k - 1)

\* r carries the fields of ev, and the surplus the claim gives
made_from(r, ev) ==
    /\ r.min_dist = ev.min_dist
    /\ r.reachable_any = ev.any_reachable
    /\ r.visible_frac = ev.visible_frac
    /\ r.within_reach_of_visible = ev.within_reach_of_visible
    /\ r.within_reach_of_total = ev.within_reach_of_total
    /\ IsFinite(ev.min_dist) => r.surplus = args.cfg.reach - ev.min_dist
    /\ ev.min_dist = Inf => r.surplus = NegInf

all_made_from(results, dir) ==
    \A k \in 1..Len(results) : made_from(results[k], eval_of_trial(dir, k))

\* C18: every TrialResult the runner appends has surplus = reach - min_dist
\* when min_dist is finite and -infinity when it is +infinity, and its
\* min_dist, reachable_any and three fractions are those of the AttackEval
\* of its trial.
C18_TrialResultFields ==
    /\ pc \in {"ab", "ba"} => all_made_from(loc.results, pc)
    /\ pc \in {"mid", "ba0", "ba", "fin"} => all_made_from(res_ab, "ab")
    /\ pc = "ret" => /\ all_made_from(ret[1].res_ab, "ab")
                     /\ all_made_from(ret[1].res_ba, "ba")

\* a returned run holds a trial with a finite distance, within reach or not,
\* and a trial with nothing visible
C18_Witness ==
    /\ pc = "ret"
    /\ \E k \in 1..Len(ret[1].res_ab) :
          /\ IsFinite(ret[1].res_ab[k].min_dist)
          /\ ret[1].res_ab[k].surplus = args.cfg.reach - ret[1].res_ab[k].min_dist
          /\ ret[1].res_ab[k].surplus # 0
    /\ \E k \in 1..Len(ret[1].res_ba) :
          /\ ret[1].res_ba[k].min_dist = Inf
          /\ ret[1].res_ba[k].surplus = NegInf

\* the progress callbacks of the current run that carry the given label
labelled(label) == {k \in 1..Len(progress) : progress[k].label = label}

\* C24: the callback (100.0, "done", trials, trials) is made only by a run
\* in which both directions evaluated all cfg.trials trials; in particular
\* its completed-count is never larger than the number of B->A results.
C24_DoneMeansComplete ==
    \A k \in labelled("done") :
        /\ ret # None
        /\ Len(ret[1].res_ab) = args.cfg.trials
        /\ Len(ret[1].res_ba) = args.cfg.trials
        /\ progress[k].done <= Len(ret[1].res_ba)

\* C25: the percentages of a run's callbacks never decrease and lie in
\* [0, 100]; A->B callbacks have a percentage in (0, 50] and come before all
\* B->A callbacks, whose percentage is in (50, 100]; and when the run has
\* returned, its last callback is (50.0, "stopped", len(res_ab), trials) or
\* (100.0, "done", trials, trials).
C25_ProgressOrder ==
    /\ \A k \in 1..Len(progress) :
          /\ 0 <= progress[k].pct /\ progress[k].pct <= 100 * PctScale
          /\ k > 1 => progress[k - 1].pct <= progress[k].pct
    /\ \A j \in labelled("A->B") :
          /\ 0 < progress[j].pct /\ progress[j].pct <= 50 * PctScale
          /\ \A k \in labelled("B->A") : j < k
    /\ \A k \in labelled("B->A") :
          50 * PctScale < progress[k].pct /\ progress[k].pct <= 100 * PctScale
    /\ (pc = "ret" /\ args.has_cb) =>
          /\ progress # <<>>
          /\ \/ progress[Len(progress)] =
                   [pct |-> 50 * PctScale, label |-> "stopped",
                    done |-> Len(ret[1].res_ab), total |-> args.cfg.trials]
             \/ progress[Len(progress)] =
                   [pct |-> 100 * PctScale, label |-> "done",
                    done |-> args.cfg.trials, total |-> args.cfg.trials]

\* a run cancelled during B->A has returned: callbacks of both directions,
\* fewer B->A callbacks than trials, and "done" last
C25_Witness ==
    /\ pc = "ret"
    /\ labelled("A->B") # {}
    /\ labelled("B->A") # {}
    /\ Len(ret[1].res_ba) < args.cfg.trials
    /\ progress[Len(progress)].label = "done"

(***************************************************************************)
(* SpecSum: summarize applied to lists of TrialResults                     *)
(***************************************************************************)
MaxSumLen == 3

\* an AttackEval's figures for min_dist and the counts visible, reachable of total
eval_of(min_dist, visible, reachable, total) ==
    [min_dist |-> min_dist, any_reachable |-> reachable > 0,
     visible_frac |-> Frac(visible, total),
     within_reach_of_visible |-> IF visible > 0 THEN Frac(reachable, visible) ELSE 0,
     within_reach_of_total |-> Frac(reachable, total)]

SumEvals ==
    {eval_of(Inf, 0, 0, 6), eval_of(0, 6, 3, 6), eval_of(61, 6, 3, 6),
     eval_of(100, 1, 1, 6), eval_of(149, 6, 2, 6), eval_of(150, 6, 1, 6),
     eval_of(151, 1, 0, 6), eval_of(200, 6, 0, 6)}

SumTrials == {trial_result(ev, SimConfig(1, 1)) : ev \in SumEvals}

RECURSIVE SeqsUpTo(_, _)
SeqsUpTo(S, n) ==
    IF n = 0 THEN {<<>>}
    ELSE SeqsUpTo(S, n - 1)
         \cup {Append(q, x) : q \in {r \in SeqsUpTo(S, n - 1) : Len(r) = n - 1}, x \in S}

InitPure == InitHeap /\ InitRun /\ worker_ref = FALSE /\ queue = <<>> /\ zombies = 0
            /\ cache = <<>> /\ ref = None /\ snap0 = None /\ fout = None

PureFrame == UNCHANGED <<heapVars, uiVars, runVars, cache, ref, snap0, fin>>

InitSum ==
    /\ InitPure
    /\ \E rs \in SeqsUpTo(SumTrials, MaxSumLen) :
          fin = Some([results |-> rs, reach |-> SimConfig(1, 1).reach])

Summarize ==
    /\ fout = None
    /\ fout' = Some(summarize(fin[1].results, fin[1].reach))
    /\ PureFrame

SpecSum == InitSum /\ [][Summarize]_vars

\* C4: summarize([]) returns n = 0 and NaN in every derived field,
\* hit_prob_any included.
C4_EmptyAllNaN ==
    (fout # None /\ fin[1].results = <<>>) =>
        /\ fout[1].n = 0
        /\ fout[1].hit_prob_any = NaN
        /\ fout[1].mean_dist = NaN
        /\ fout[1].mean_surplus = NaN
        /\ fout[1].p10_dist = NaN
        /\ fout[1].p50_dist = NaN
        /\ fout[1].p90_dist = NaN
        /\ fout[1].mean_visible_frac = NaN
        /\ fout[1].mean_occluded_frac = NaN
        /\ fout[1].mean_within_reach_of_visible = NaN
        /\ fout[1].mean_within_reach_of_total = NaN

\* the min_dist values of the list summarized
sum_dists == {fin[1].results[i].min_dist : i \in 1..Len(fin[1].results)}

finite_nonempty ==
    /\ fout # None
    /\ fin[1].results # <<>>
    /\ \A d \in sum_dists : IsFinite(d)

\* C19: for a non-empty list whose min_dist values are all finite,
\* p10_dist <= p50_dist <= p90_dist, and each lies between the smallest and
\* the largest min_dist of the list.
C19_PercentileOrder ==
    finite_nonempty =>
        /\ fout[1].p10_dist <= fout[1].p50_dist
        /\ fout[1].p50_dist <= fout[1].p90_dist
        /\ \A p \in {fout[1].p10_dist, fout[1].p50_dist, fout[1].p90_dist} :
              /\ IsFinite(p)
              /\ \E d \in sum_dists : d <= p
              /\ \E d \in sum_dists : p <= d

\* three different distances given in descending order: the percentiles are
\* strictly ordered and strictly inside the range
C19_Witness ==
    /\ finite_nonempty
    /\ Len(fin[1].results) = 3
    /\ fin[1].results[1].min_dist > fin[1].results[2].min_dist
    /\ fin[1].results[2].min_dist > fin[1].results[3].min_dist
    /\ fin[1].results[3].min_dist < fout[1].p10_dist
    /\ fout[1].p10_dist < fout[1].p50_dist
    /\ fout[1].p50_dist < fout[1].p90_dist
    /\ fout[1].p90_dist < fin[1].results[1].min_dist

(***************************************************************************)
(* SpecSumRun: summarize called on a list of TrialResults, or run_sim      *)
(* called on the World, which calls summarize on the lists it returns      *)
(***************************************************************************)
InitSumRun == InitSum \/ InitRunSpec

NextSumRun ==
    \/ fin # None /\ Summarize
    \/ fin = None /\ NextRun

SpecSumRun == InitSumRun /\ [][NextSumRun]_vars

reachable_count(results) ==
    Cardinality({i \in 1..Len(results) : results[i].reachable_any})

\* n and hit_prob_any of the summary of a non-empty list
counts_match(stats, results) ==
    /\ stats.n = Len(results)
    /\ stats.hit_prob_any = Frac(reachable_count(results), Len(results))

\* the (stats, results) pairs in the state for which results is not empty
summarized_pairs ==
    (IF fout # None /\ fin[1].results # <<>>
     THEN {<<fout[1], fin[1].results>>} ELSE {})
    \cup (IF pc = "ret"
          THEN {pr \in {<<ret[1].stats_ab, ret[1].res_ab>>,
                        <<ret[1].stats_ba, ret[1].res_ba>>} : pr[2] # <<>>}
          ELSE {})

\* the part of the claim about run_sim's outcomes
run_counts ==
    pc = "ret" =>
        /\ ret[1].stats_ab.n = Len(ret[1].res_ab)
        /\ Len(ret[1].res_ab) <= args.cfg.trials
        /\ ret[1].stats_ba.n = Len(ret[1].res_ba)
        /\ Len(ret[1].res_ba) <= args.cfg.trials

\* C20 as stated: for a non-empty list, n is its length, hit_prob_any is
\* the share of trials with reachable_any, and mean_occluded_frac equals
\* 1 - mean_visible_frac; every outcome of run_sim has stats.n = len(res)
\* <= cfg.trials in both directions.
C20_SummaryOriginal ==
    /\ \A pr \in summarized_pairs :
          /\ counts_match(pr[1], pr[2])
          /\ pr[1].mean_occluded_frac = FracScale - pr[1].mean_visible_frac
    /\ run_counts

\* C20 as amended: the same, with mean_occluded_frac equal to
\* 1 - mean_visible_frac up to the rounding of the two means (one unit of
\* the last place kept).
C20_Summary ==
    /\ \A pr \in summarized_pairs :
          /\ counts_match(pr[1], pr[2])
          /\ Abs(pr[1].mean_occluded_frac - (FracScale - pr[1].mean_visible_frac)) <= 1
    /\ run_counts

\* a run cancelled inside A->B after its first trial: one result of the
\* trials asked for, summarized, and an empty B->A
C20_Witness ==
    /\ StoppedInAB
    /\ Len(ret[1].res_ab) = 1
    /\ args.cfg.trials > 1
    /\ ret[1].stats_ab.n = 1
    /\ ret[1].stats_ab.hit_prob_any \in {0, FracScale}
    /\ ret[1].stats_ba.n = 0
    /\ ret[1].res_ba = <<>>

(***************************************************************************)
(* SpecVis: is_visible applied to its five arguments                       *)
(***************************************************************************)
VisFrom == {<<25, 81, 25>>, <<25, 25, 25>>}
VisTo == {<<125, 81, 25>>, <<125, 25, 25>>, <<25, 81, 25>>}
VisVoxels == {None, Some({}), Some({<<1, 1, 0>>}), Some({<<1, 0, 0>>})}
UpperBox == AABB(<<50, 50, 0>>, <<100, 100, 50>>)
LowerBox == AABB(<<50, 0, 0>>, <<100, 50, 50>>)
VisBlockers == {None, Some(<<>>), Some(<<UpperBox>>), Some(<<LowerBox, UpperBox>>),
                Some(<<UpperBox, UpperBox>>)}
VisIgnore == {None, Some(UpperBox)}

InitVis ==
    /\ InitPure
    /\ \E a \in VisFrom, t \in VisTo, b \in VisBlockers, s \in VisVoxels,
          g \in VisIgnore :
          fin = Some([attacker |-> a, target_point |-> t, blockers |-> b,
                      solid_blocks |-> s, ignore |-> g])

Visible ==
    /\ fout = None
    /\ fout' = Some(is_visible(fin[1].attacker, fin[1].target_point, fin[1].blockers,
                               fin[1].solid_blocks, fin[1].ignore))
    /\ PureFrame

SpecVis == InitVis /\ [][Visible]_vars

\* the AABB path on its own: no blocker other than ignore meets the segment
boxes_clear ==
    \A i \in 1..Len(fin[1].blockers[1]) :
        \/ fin[1].ignore # None /\ fin[1].blockers[1][i] = fin[1].ignore[1]
        \/ ~segment_intersects_aabb(fin[1].attacker, fin[1].target_point,
                                    fin[1].blockers[1][i]).hit

\* C10: with a voxel set supplied, empty or not, is_visible is the negation
\* of the DDA test on that set, whatever the AABB list and the ignore box
\* are; with neither a voxel set nor an AABB list it is true.
C10_Dispatch ==
    fout # None =>
        /\ fin[1].solid_blocks # None =>
              fout[1] = ~segment_hits_solid_blocks_dda(
                            fin[1].attacker, fin[1].target_point, fin[1].solid_blocks[1])
        /\ (fin[1].solid_blocks = None /\ fin[1].blockers = None) => fout[1] = TRUE

\* an empty voxel set was supplied together with an AABB list that blocks the
\* segment: the call answered visible
C10_Witness ==
    /\ fout # None
    /\ fin[1].solid_blocks = Some({})
    /\ fin[1].blockers # None
    /\ ~boxes_clear
    /\ fout[1] = TRUE

\* the boxes of the list that are not value-equal to the ignore box
tested_boxes ==
    {i \in 1..Len(fin[1].blockers[1]) :
        fin[1].ignore = None \/ fin[1].blockers[1][i] # fin[1].ignore[1]}

\* C11: without a voxel set and with an AABB list, is_visible is false exactly
\* when some box of the list that is not value-equal to the ignore box is hit
\* by segment_intersects_aabb; an empty list gives true.
C11_AABBPath ==
    (fout # None /\ fin[1].solid_blocks = None /\ fin[1].blockers # None) =>
        /\ fout[1] = FALSE <=>
              \E i \in tested_boxes :
                  segment_intersects_aabb(fin[1].attacker, fin[1].target_point,
                                          fin[1].blockers[1][i]).hit
        /\ fin[1].blockers[1] = <<>> => fout[1] = TRUE

\* the list holds the ignore box twice and nothing else, the segment crosses
\* that box, and the call answered visible
C11_Witness ==
    /\ fout # None
    /\ fin[1].solid_blocks = None
    /\ fin[1].blockers = Some(<<UpperBox, UpperBox>>)
    /\ fin[1].ignore = Some(UpperBox)
    /\ segment_intersects_aabb(fin[1].attacker, fin[1].target_point, UpperBox).hit
    /\ fout[1] = TRUE

(***************************************************************************)
(* SpecProbe: the voxel DDA and the slab test applied to one probe segment *)
(* against the unit cube at the origin                                     *)
(***************************************************************************)
ProbeCoords == {0 - 25, 0, 25, 50, 75}
ProbePoints == {<<x, y, z>> : x \in ProbeCoords, y \in ProbeCoords, z \in ProbeCoords}
UnitCube == AABB(<<0, 0, 0>>, <<Scale, Scale, Scale>>)

InitProbe ==
    /\ InitPure
    /\ \E a \in ProbePoints, b \in ProbePoints : fin = Some([p0 |-> a, p1 |-> b])

Probe ==
    /\ fout = None
    /\ fout' = Some([dda |-> segment_hits_solid_blocks_dda(fin[1].p0, fin[1].p1,
                                                           {<<0, 0, 0>>}),
                     slab |-> segment_intersects_aabb(fin[1].p0, fin[1].p1, UnitCube)])
    /\ PureFrame

SpecProbe == InitProbe /\ [][Probe]_vars

\* C12: for every probe segment of the grid, the voxel DDA against the single
\* solid voxel (0,0,0) reports a hit exactly when the slab test against the
\* unit cube at the origin does, segments that only touch the cube included.
C12_DDAEqualsSlab ==
    fout # None => (fout[1].dda = fout[1].slab.hit)

(***************************************************************************)
(* SpecDDA: the voxel DDA applied to one segment and one voxel set         *)
(***************************************************************************)
DDACoords == {0 - 60, 0, 25, 50, 75, 130}
DDAPoints == {<<x, y, z>> : x \in DDACoords, y \in DDACoords, z \in DDACoords}
TinyCoords == {0 - 2, 0, 1, 3}
TinyPoints == {<<x, y, z>> : x \in TinyCoords, y \in TinyCoords, z \in TinyCoords}
DDASolids == {{}, {<<0, 0, 0>>}, {<<1, 1, 0>>, <<0 - 1, 0, 0>>}}

InitDDA ==
    /\ InitPure
    /\ \E s \in DDASolids :
          \/ \E a \in DDAPoints, b \in DDAPoints :
                fin = Some([unit |-> "grid", p0 |-> a, p1 |-> b, solids |-> s])
          \/ \E a \in TinyPoints, b \in TinyPoints :
                fin = Some([unit |-> "tiny", p0 |-> a, p1 |-> b, solids |-> s])

Traverse ==
    /\ fout = None
    /\ fout' = Some(dda_run_at(fin[1].unit, fin[1].p0, fin[1].p1, fin[1].solids))
    /\ PureFrame

SpecDDA == InitDDA /\ [][Traverse]_vars

dda_d == VSub(fin[1].p1, fin[1].p0)
dda_steps == fout[1].steps

\* t_max of axis a is no larger than that of axis b at advance s
t_max_le(s, a, b) == ~TLess(s.N[b], dda_d[b], s.N[a], dda_d[a])

\* exactly one coordinate of the voxel changes, by the step of its axis
one_axis_advanced(s) ==
    /\ step(dda_d[s.ax]) # 0
    /\ s.v2 = [s.v EXCEPT ![s.ax] = @ + step(dda_d[s.ax])]

smallest_t_max(s) == \A b \in 1..3 : t_max_le(s, s.ax, b)

\* the axes whose t_max equals that of the advanced axis
tied_axes(s) == {b \in 1..3 : t_max_le(s, b, s.ax)}

\* C21 as stated: every advance of the DDA changes exactly one axis, that axis
\* has the smallest t_max, and among tied axes x is advanced in preference
\* to y and y in preference to z.
C21_TieOrderOriginal ==
    fout # None =>
        \A i \in 1..Len(dda_steps) :
            /\ one_axis_advanced(dda_steps[i])
            /\ smallest_t_max(dda_steps[i])
            /\ \A b \in tied_axes(dda_steps[i]) : dda_steps[i].ax <= b

\* C21 (amended): every advance of the DDA changes exactly one axis, that axis
\* has the smallest t_max, and among tied axes the later one in the order
\* x, y, z is advanced: y in preference to x, and z in preference to both.
C21_TieOrder ==
    fout # None =>
        \A i \in 1..Len(dda_steps) :
            /\ one_axis_advanced(dda_steps[i])
            /\ smallest_t_max(dda_steps[i])
            /\ \A b \in tied_axes(dda_steps[i]) : b <= dda_steps[i].ax

\* a traversal in which x and y tie below z and y is advanced, and one in
\* which all three axes tie
C21_Witness ==
    /\ fout # None
    /\ \E i \in 1..Len(dda_steps) :
          tied_axes(dda_steps[i]) = {1, 2} /\ dda_steps[i].ax = 2 /\ dda_d[3] # 0
    /\ \E i \in 1..Len(dda_steps) :
          tied_axes(dda_steps[i]) = {1, 2, 3} /\ dda_steps[i].ax = 3

dda_tested == fout[1].tested

\* the parameter t after advance s is smaller than after advance u
t_less(s, u) == TLess(s.N[s.ax], dda_d[s.ax], u.N[u.ax], dda_d[u.ax])

\* t starts at 0 and every advance makes it larger
t_strictly_increases ==
    /\ \A i \in 1..Len(dda_steps) : dda_steps[i].N[dda_steps[i].ax] > 0
    /\ \A i \in 1..(Len(dda_steps) - 1) : t_less(dda_steps[i], dda_steps[i + 1])

end_voxel_difference(a) == Abs(Floor(fin[1].p1[a]) - Floor(fin[1].p0[a]))

iteration_bound ==
    1 + end_voxel_difference(1) + end_voxel_difference(2) + end_voxel_difference(3) + 3

\* C22: for a segment with distinct endpoints the DDA returns a value, t grows
\* strictly at every advance, the loop body runs at most
\* 1 + |dvx| + |dvy| + |dvz| + 3 times, the result is False exactly when no
\* tested voxel is occupied, and no axis with zero direction is advanced.
C22_Terminates ==
    (fout # None /\ fin[1].p0 # fin[1].p1) =>
        /\ ~fout[1].raised
        /\ t_strictly_increases
        /\ Len(dda_tested) <= iteration_bound
        /\ fout[1].hit = (\E i \in 1..Len(dda_tested) : dda_tested[i] \in fin[1].solids)
        /\ \A i \in 1..Len(dda_steps) : dda_d[dda_steps[i].ax] # 0

(***************************************************************************)
(* SpecDDANano: SpecDDA and the voxel DDA applied to segments a few         *)
(* nanometres long next to the corner shared by the cells -1 and 0          *)
(***************************************************************************)
NanoX == {0 - 3, 0 - 1, 1, 3}
NanoY == {0 - 7, 0 - 5, 0 - 3, 1}
NanoZ == {0 - 7, 0 - 3, 0 - 1, 5}
NanoPoints == {<<x, y, z>> : x \in NanoX, y \in NanoY, z \in NanoZ}
NanoSolids == {{}, {<<0 - 1, 0, 0>>}, {<<0, 0 - 1, 0 - 1>>}}

InitNano ==
    /\ InitPure
    /\ \E s \in NanoSolids, a \in NanoPoints, b \in NanoPoints :
          fin = Some([unit |-> "nano", p0 |-> a, p1 |-> b, solids |-> s])

TraverseNano ==
    /\ fout = None
    /\ fin[1].unit = "nano"
    /\ fout' = Some(dda_run_nano(fin[1].p0, fin[1].p1, fin[1].solids))
    /\ PureFrame

NextDDANano == (fin[1].unit # "nano" /\ Traverse) \/ TraverseNano

SpecDDANano == (InitDDA \/ InitNano) /\ [][NextDDANano]_vars

\* the width of a cell in the unit of the segment's coordinates (2e9 for the
\* nano and 1e200 for the tiny unit: beyond every coordinate used)
cell_lo(v) ==
    IF fin[1].unit = "grid" THEN v * Scale ELSE IF v < 0 THEN NegInf ELSE IF v = 0 THEN 0 ELSE Inf
cell_hi(v) ==
    IF fin[1].unit = "grid" THEN (v + 1) * Scale ELSE IF v < 0 - 1 THEN NegInf ELSE IF v = 0 - 1 THEN 0 ELSE Inf

\* the closed unit cube of voxel v holds the point p
voxel_holds(v, p) == \A a \in 1..3 : cell_lo(v[a]) <= p[a] /\ p[a] <= cell_hi(v[a])

\* the point p is in the interior of the unit cube of voxel v
strictly_inside(v, p) == \A a \in 1..3 : cell_lo(v[a]) < p[a] /\ p[a] < cell_hi(v[a])

unit_steps ==
    \A i \in 1..(Len(dda_tested) - 1) :
        \E a \in 1..3 :
            /\ Abs(dda_tested[i + 1][a] - dda_tested[i][a]) = 1
            /\ \A b \in (1..3) \ {a} : dda_tested[i + 1][b] = dda_tested[i][b]

\* C27: when the DDA returns False for a segment with distinct endpoints, the
\* voxels it tested start at a voxel holding the start point, change exactly
\* one coordinate by exactly 1 from one to the next, and include a voxel
\* holding the end point; and a segment whose start or end point is in the
\* interior of an occupied voxel is reported as hitting.
C27_TestedPath ==
    (fout # None /\ fin[1].p0 # fin[1].p1 /\ ~fout[1].raised) =>
        /\ ~fout[1].hit =>
              /\ voxel_holds(dda_tested[1], fin[1].p0)
              /\ unit_steps
              /\ \E i \in 1..Len(dda_tested) : voxel_holds(dda_tested[i], fin[1].p1)
        /\ (\E v \in fin[1].solids :
                strictly_inside(v, fin[1].p0) \/ strictly_inside(v, fin[1].p1))
              => fout[1].hit

(***************************************************************************)
(* SpecSlab: segment_intersects_aabb applied to a segment and a box whose  *)
(* coordinates are within a few start_nudge of one another                 *)
(***************************************************************************)
FineCoords == {0 - 5002, 0, 5000, 10002, 14999}
FinePoints == {<<x, y, z>> : x \in FineCoords, y \in FineCoords, z \in FineCoords}
FineCube == AABB(<<0, 0, 0>>, <<5000, 5000, 5000>>)
FineFlat == AABB(<<0, 5000, 0>>, <<5000, 5000, 5000>>)
FineBoxes == {FineCube, FineFlat}

InitSlab ==
    /\ InitPure
    /\ \E a \in FinePoints, b \in FinePoints, bx \in FineBoxes :
          fin = Some([p0 |-> a, p1 |-> b, box |-> bx])

Slab ==
    /\ fout = None
    /\ fout' = Some(segment_intersects_aabb_fine(fin[1].p0, fin[1].p1, fin[1].box))
    /\ PureFrame

SpecSlab == InitSlab /\ [][Slab]_vars

\* both endpoints lie beyond the same face of the box by more than the nudge
beyond_same_face ==
    \E axis \in 1..3 :
        \/ /\ fin[1].p0[axis] < fin[1].box.mn[axis] - start_nudge_fine
           /\ fin[1].p1[axis] < fin[1].box.mn[axis] - start_nudge_fine
        \/ /\ fin[1].p0[axis] > fin[1].box.mx[axis] + start_nudge_fine
           /\ fin[1].p1[axis] > fin[1].box.mx[axis] + start_nudge_fine

corner_to_corner == fin[1].p0 = fin[1].box.mn /\ fin[1].p1 = fin[1].box.mx

\* C13: segment_intersects_aabb reports no hit for every segment whose two
\* endpoints lie beyond the same face of the box by more than the nudge; for
\* the segment from the box's min corner to its max corner it reports a hit
\* with t_enter = 0 and t_exit = 1; it never raises, a zero-length segment
\* included.
C13_SlabContract ==
    fout # None =>
        /\ beyond_same_face => ~fout[1].hit
        /\ corner_to_corner =>
              /\ fout[1].hit
              /\ fout[1].t_enter[1] = 0
              /\ fout[1].t_exit[1] = fout[1].t_exit[2]
        /\ ~fout[1].raised

\* the counts the call sample_aabb_surface(box, n) samples with
sample_counts_sub(box, n) ==
    surface_counts_sub(QuantSub(box.mx[1] - box.mn[1]),
                       QuantSub(box.mx[2] - box.mn[2]),
                       QuantSub(box.mx[3] - box.mn[3]), Max2(1, n))

(***************************************************************************)
(* SpecSurface: sample_aabb_surface applied to a box and a resolution      *)
(***************************************************************************)
MaxSampleN == 3
\* box sizes: none, less than half a microblock, 1.6 microblocks, a third of
\* a block, 0.6 block and one block
SubSizes == {0, 4, 16, 3333333, 6000000, 10000000}
SubMins == {<<0, 0, 0>>, <<2500000, 0, 7000003>>}

InitSurface ==
    /\ InitPure
    /\ \E mn \in SubMins, sx \in SubSizes, sy \in SubSizes, sz \in SubSizes,
          n \in 1..MaxSampleN :
          fin = Some([box |-> AABB(mn, VAdd(mn, <<sx, sy, sz>>)), n |-> n])

Surface ==
    /\ fout = None
    /\ fout' = Some([pts |-> sample_aabb_surface_sub(fin[1].box, fin[1].n),
                     counts |-> sample_counts_sub(fin[1].box, fin[1].n)])
    /\ PureFrame

SpecSurface == InitSurface /\ [][Surface]_vars

on_boundary(p, box) ==
    \E axis \in 1..3 : p[axis] = box.mn[axis] \/ p[axis] = box.mx[axis]

offset_key(p, box) ==
    <<QuantSub(p[1] - box.mn[1]), QuantSub(p[2] - box.mn[2]),
      QuantSub(p[3] - box.mn[3])>>

\* C14: every point returned by sample_aabb_surface has a coordinate equal
\* to the box's min or max value on that axis, and no two returned points
\* have the same offsets after rounding to 1e-6.
C14_BoundaryNoDuplicates ==
    fout # None =>
        /\ \A i \in 1..Len(fout[1].pts) : on_boundary(fout[1].pts[i], fin[1].box)
        /\ \A i, j \in 1..Len(fout[1].pts) :
              i # j => offset_key(fout[1].pts[i], fin[1].box)
                          # offset_key(fout[1].pts[j], fin[1].box)

\* the size of the box on an axis, in whole microblocks as the sampler
\* rounds it
extent_q(axis) == QuantSub(fin[1].box.mx[axis] - fin[1].box.mn[axis])

longest(axis) == \A other \in 1..3 : extent_q(other) <= extent_q(axis)

\* the three statements of the claim about the counts
counts_as_claimed ==
    \A axis \in 1..3 :
        /\ extent_q(axis) > 0 => fout[1].counts[axis] >= 2
        /\ extent_q(axis) = 0 => fout[1].counts[axis] = 1
        /\ (longest(axis) /\ extent_q(axis) > 0) => fout[1].counts[axis] = fin[1].n

\* C15 as stated: for every resolution n >= 1 the count is at least 2 on an
\* axis of non-negligible extent, exactly 1 on an axis of zero extent, and n
\* on the axis of longest extent.
C15_CountsOriginal == fout # None => counts_as_claimed

\* C15 as amended: the three statements hold for every resolution n >= 2;
\* at n = 1 every axis receives exactly one sample.
C15_Counts ==
    fout # None =>
        /\ fin[1].n >= 2 => counts_as_claimed
        /\ fin[1].n = 1 => fout[1].counts = <<1, 1, 1>>

\* at a resolution above 2, a box with a long axis, an axis of 1.6
\* microblocks and an axis of no extent: n, 2 and 1 samples
C15_Witness ==
    /\ fout # None
    /\ fin[1].n > 2
    /\ \E a, b, c \in 1..3 :
          /\ extent_q(a) = 10000000 \div SubScale /\ fout[1].counts[a] = fin[1].n
          /\ extent_q(b) = 2 /\ fout[1].counts[b] = 2
          /\ extent_q(c) = 0 /\ fout[1].counts[c] = 1

(***************************************************************************)
(* SpecCache: successive calls of sample_aabb_surface in one process, the  *)
(* lru_cache empty or nearly full when the first of them is made           *)
(***************************************************************************)
MaxCalls == 3

\* the lru_cache after k calls for k cuboids of sizes (i, 1, 1) microblocks at
\* resolution 1: k misses, kept in call order
filled_cache(k) ==
    [i \in 1..k |-> [key |-> <<i, 1, 1, 1>>, val |-> surface_offsets_sub(i, 1, 1, 1)]]

EarlierCalls == {0, lru_maxsize - 1, lru_maxsize}

\* boxes of 1.6 and of 2.4 microblocks (both 2 after rounding), one of about
\* one microblock, and a player's box 0.6 x 1.8 x 0.6
CacheBoxes ==
    {AABB(<<0, 0, 0>>, <<16, 16, 16>>),
     AABB(<<2500000, 0, 7000003>>, <<2500024, 24, 7000027>>),
     AABB(<<0, 5, 0>>, <<12, 13, 14>>),
     AABB(<<2000000, 0, 2000000>>, <<8000000, 18000000, 8000000>>)}

InitCache ==
    /\ InitHeap /\ InitRun /\ worker_ref = FALSE /\ queue = <<>> /\ zombies = 0
    /\ snap0 = None /\ fin = None /\ fout = None
    /\ ref = <<>>
    /\ \E k \in EarlierCalls : cache = filled_cache(k)

\* one call sample_aabb_surface(box, n); ref is the list of calls made
SampleCall(box, n) ==
    /\ fin' = Some([box |-> box, n |-> n])
    /\ fout' = Some(sample_aabb_surface_cached_sub(box, n, cache))
    /\ cache' = cache_after_sub(cache, surface_key_sub(box, n))
    /\ ref' = Append(ref, [box |-> box, n |-> n,
                           hit |-> CacheIndex(cache, surface_key_sub(box, n)) > 0,
                           full |-> Len(cache) = lru_maxsize])
    /\ UNCHANGED <<heapVars, uiVars, runVars, snap0>>

SampleCalls ==
    /\ Len(ref) < MaxCalls
    /\ \E box \in CacheBoxes, n \in 1..MaxSurface : SampleCall(box, n)

SpecCache == InitCache /\ [][SampleCalls]_vars

\* the offsets of a returned list: each point less the box's min corner
offsets_from(mn, pts) == [i \in 1..Len(pts) |-> VSub(pts[i], mn)]

\* C23: whatever calls came before, sample_aabb_surface(box, n) returns the
\* points a call on an empty cache returns, in the same order; and a call
\* for any box with the same quantized dimensions returns the same sequence
\* of offsets, translated by that box's min corner.
C23_CacheTransparent ==
    fout # None =>
        /\ fout[1] = sample_aabb_surface_sub(fin[1].box, fin[1].n)
        /\ \A b \in CacheBoxes :
              surface_key_sub(b, fin[1].n) = surface_key_sub(fin[1].box, fin[1].n) =>
                  offsets_from(b.mn, sample_aabb_surface_cached_sub(b, fin[1].n, cache))
                      = offsets_from(fin[1].box.mn, fout[1])

\* three calls on a full cache: a miss that evicts the oldest entry, a miss
\* that computes the evicted entry again, and a hit on the entry of the
\* first call by a box of other dimensions that round to the same
C23_Witness ==
    /\ Len(ref) = 3
    /\ ref[1].full /\ ~ref[1].hit
    /\ ~ref[2].hit /\ surface_key_sub(ref[2].box, ref[2].n) = <<1, 1, 1, 1>>
    /\ ref[3].hit
    /\ surface_key_sub(ref[3].box, ref[3].n) = surface_key_sub(ref[1].box, ref[1].n)
    /\ VSub(ref[3].box.mx, ref[3].box.mn) # VSub(ref[1].box.mx, ref[1].box.mn)

(***************************************************************************)
(* SpecJitter: JitterSpec.sample applied to a generator that has already   *)
(* given some draws                                                        *)
(***************************************************************************)
MaxDrawn == 3
AxisRanges == {0, 10, 25}

InitJitter ==
    /\ InitPure
    /\ \E jx \in AxisRanges, jy \in AxisRanges, jz \in AxisRanges, seed \in Seeds,
          n \in 0..MaxDrawn :
          fin = Some([jitter |-> JitterSpec(<<jx, jy, jz>>, seed),
                      rng |-> [seed |-> seed, n |-> n]])

Sample ==
    /\ fout = None
    /\ fout' = Some(sample(fin[1].jitter, fin[1].rng))
    /\ PureFrame

SpecJitter == InitJitter /\ [][Sample]_vars

axis_range(axis) ==
    IF axis = 1 THEN fin[1].jitter.jx
    ELSE IF axis = 2 THEN fin[1].jitter.jy ELSE fin[1].jitter.jz

\* the axes of positive range that come before axis in the order x, y, z
drawn_before(axis) == Cardinality({a \in 1..3 : a < axis /\ axis_range(a) > 0})

\* the value rng.uniform(-j, j) makes of the raw draw at position k
uniform_at(k, j) == (0 - j) + (2 * j * Stream(fin[1].rng.seed, k)) \div RngRes

\* C16: JitterSpec.sample takes one generator draw for each axis of range
\* > 0, in the order x, y, z, and none for an axis of range 0, whose
\* component is 0; with no axis of positive range the generator is left as
\* it was; every component lies in [-j, +j] for its axis's range j.
C16_SampleDraws ==
    fout # None =>
        /\ fout[1].rng.seed = fin[1].rng.seed
        /\ fout[1].rng.n = fin[1].rng.n + Cardinality({a \in 1..3 : axis_range(a) > 0})
        /\ \A a \in 1..3 :
              /\ axis_range(a) = 0 => fout[1].v[a] = 0
              /\ axis_range(a) > 0 =>
                    fout[1].v[a] = uniform_at(fin[1].rng.n + drawn_before(a), axis_range(a))
              /\ 0 - axis_range(a) <= fout[1].v[a]
              /\ fout[1].v[a] <= axis_range(a)

\* x and z have a range, y has none: two draws were taken, y is 0, and the
\* draw z used is the one right after x's
C16_Witness ==
    /\ fout # None
    /\ fin[1].jitter.jx > 0 /\ fin[1].jitter.jy = 0 /\ fin[1].jitter.jz > 0
    /\ fout[1].rng.n = fin[1].rng.n + 2
    /\ fout[1].v[2] = 0
    /\ fout[1].v[1] # 0 /\ fout[1].v[3] # 0
    /\ Stream(fin[1].rng.seed, fin[1].rng.n) # Stream(fin[1].rng.seed, fin[1].rng.n + 1)

(***************************************************************************)
(* SpecEval: evaluate_attack applied to an eye, a target box, a voxel set  *)
(***************************************************************************)
MaxAttackSamples == 2

EvalEyes == {<<25, 81, 25>>, <<70, 45, 25>>, <<110, 45, 25>>, <<110, 0, 10>>}
EvalTargets == {aabb_at(Player("B", pos), pos) : pos \in PosB}
EvalSolids == {{}, {<<1, 1, 0>>}, {<<1, 0, 0>>, <<1, 1, 0>>}}
EvalReach == {50, 100, 150}

InitEval ==
    /\ InitPure
    /\ \E e \in EvalEyes, t \in EvalTargets, s \in EvalSolids, r \in EvalReach,
          n \in 1..MaxSurface, m \in 1..MaxAttackSamples :
          fin = Some([attacker_eye |-> e, target |-> t, solid_blocks |-> s,
                      reach |-> r, surface_samples |-> n,
                      attack_offset |-> SimConfig(1, 1).attack_offset,
                      attack_samples |-> m])

Evaluate ==
    /\ fout = None
    /\ fout' = Some(evaluate_attack(fin[1].attacker_eye, fin[1].target,
                                    Some(fin[1].solid_blocks), fin[1].reach,
                                    fin[1].surface_samples, fin[1].attack_offset,
                                    fin[1].attack_samples, <<>>))
    /\ PureFrame

SpecEval == InitEval /\ [][Evaluate]_vars

\* the two sample lists of the call
eval_att_pts ==
    sample_segment(fin[1].attacker_eye,
                   segment_end(fin[1].attacker_eye,
                               closest_point(fin[1].target, fin[1].attacker_eye),
                               fin[1].attack_offset),
                   fin[1].attack_samples)
eval_tgt_pts == sample_aabb_surface(fin[1].target, fin[1].surface_samples, <<>>)

\* attacker sample j sees target point i
sees(j, i) ==
    is_visible(eval_att_pts[j], eval_tgt_pts[i], None, Some(fin[1].solid_blocks), None)

\* the target points some attacker sample sees, and those one of them sees
\* from within reach
visible_points ==
    {i \in 1..Len(eval_tgt_pts) : \E j \in 1..Len(eval_att_pts) : sees(j, i)}
reachable_points ==
    {i \in 1..Len(eval_tgt_pts) :
        \E j \in 1..Len(eval_att_pts) :
            sees(j, i) /\ Dist2(eval_att_pts[j], eval_tgt_pts[i])
                              <= fin[1].reach * fin[1].reach}

\* C7: within_reach_of_visible >= within_reach_of_total, both are 0 when no
\* target point is visible, and the fractions are those of counts with
\* 0 <= reachable <= visible <= total.
C7_FractionOrder ==
    fout # None =>
        /\ fout[1].within_reach_of_visible >= fout[1].within_reach_of_total
        /\ ~fout[1].any_visible =>
              fout[1].within_reach_of_visible = 0 /\ fout[1].within_reach_of_total = 0
        /\ 0 <= fout[1].within_reach_of_total
        /\ fout[1].within_reach_of_total <= fout[1].visible_frac
        /\ fout[1].visible_frac <= FracScale
        /\ fout[1].within_reach_of_visible <= FracScale

\* some points are hidden and some of the visible ones are out of reach
C7_Witness ==
    /\ fout # None
    /\ fout[1].within_reach_of_total > 0
    /\ fout[1].within_reach_of_visible > fout[1].within_reach_of_total
    /\ fout[1].within_reach_of_visible < FracScale

\* C8: a target point is visible exactly when some attacker sample sees it,
\* reachable exactly when it is visible and its least squared distance over
\* the samples that see it is <= reach squared; visible_frac, the two
\* within-reach fractions are the ratios of these counts, early exit or not.
C8_Classification ==
    fout # None =>
        /\ fout[1].visible_frac = Frac(Cardinality(visible_points), Len(eval_tgt_pts))
        /\ fout[1].within_reach_of_total
               = Frac(Cardinality(reachable_points), Len(eval_tgt_pts))
        /\ visible_points # {} =>
               fout[1].within_reach_of_visible
                   = Frac(Cardinality(reachable_points), Cardinality(visible_points))
        /\ fout[1].any_visible = (visible_points # {})
        /\ fout[1].any_reachable = (reachable_points # {})

\* an attacker sample that is not the last one lies on a target point it
\* sees, so the scan of that point left early; other visible points are out
\* of reach
C8_Witness ==
    /\ fout # None
    /\ \E i \in visible_points :
          \E j \in 1..(Len(eval_att_pts) - 1) :
              sees(j, i) /\ eval_att_pts[j] = eval_tgt_pts[i]
    /\ reachable_points # visible_points
    /\ reachable_points # {}

\* the least squared distance from which target point i is seen
best_dist2(i) ==
    LET ds == {Dist2(eval_att_pts[j], eval_tgt_pts[i]) :
                  j \in {k \in 1..Len(eval_att_pts) : sees(k, i)}}
    IN  CHOOSE d \in ds : \A e \in ds : d <= e

\* the visible points at the least distance of all
nearest_points ==
    {i \in visible_points : \A k \in visible_points : best_dist2(i) <= best_dist2(k)}

\* C9: min_dist is the least best distance over the visible target points
\* and aim_target the first point in scan order at that distance; with no
\* visible point any_visible is false, min_dist is +infinity and aim_target
\* is the box point closest to the eye.
C9_MinAndAim ==
    fout # None =>
        IF visible_points # {}
        THEN /\ fout[1].any_visible
             /\ \E i \in nearest_points :
                   /\ \A k \in nearest_points : i <= k
                   /\ fout[1].min_dist = Sqrt(best_dist2(i))
                   /\ fout[1].aim_target = eval_tgt_pts[i]
        ELSE /\ ~fout[1].any_visible
             /\ fout[1].min_dist = Inf
             /\ fout[1].aim_target
                    = closest_point(fin[1].target, fin[1].attacker_eye)

\* several target points lie at the least distance, and they are different
\* points
C9_Witness ==
    /\ fout # None
    /\ \E i, k \in nearest_points : eval_tgt_pts[i] # eval_tgt_pts[k]
    /\ fin[1].solid_blocks # {}

(***************************************************************************)
(* SpecEvalNear: evaluate_attack on the inputs of SpecEval, and on an eye  *)
(* whose distance from a one-point target is within a few float steps of   *)
(* the reach                                                               *)
(***************************************************************************)
NearOffsets == (0 - 4)..4
NearSteps == 0..4

InitNear ==
    /\ InitPure
    /\ \E i \in NearOffsets, j \in NearSteps, l \in NearSteps :
          fin = Some([near |-> <<i, j, l>>, reach |-> 0])

EvaluateNear ==
    /\ fout = None
    /\ "near" \in DOMAIN fin[1]
    /\ fout' = Some(evaluate_attack_near(fin[1].near[1], fin[1].near[2], fin[1].near[3]))
    /\ PureFrame

NextEvalNear ==
    \/ "near" \notin DOMAIN fin[1] /\ Evaluate
    \/ EvaluateNear

SpecEvalNear == (InitEval \/ InitNear) /\ [][NextEvalNear]_vars

\* the TrialResult the runner makes of the evaluation, at the same reach
eval_trial == trial_result(fout[1], [reach |-> fin[1].reach])

\* C26 as stated: any_reachable holds exactly when min_dist is finite and at
\* most reach, any_reachable implies any_visible, and the TrialResult has
\* reachable_any exactly when its surplus is >= 0.
C26_ReachableOriginal ==
    fout # None =>
        /\ fout[1].any_reachable
               <=> (IsFinite(fout[1].min_dist) /\ fout[1].min_dist <= fin[1].reach)
        /\ fout[1].any_reachable => fout[1].any_visible
        /\ eval_trial.reachable_any <=> eval_trial.surplus >= 0

\* C26 (amended): any_reachable implies that min_dist is finite and at most
\* reach, a finite min_dist below reach implies any_reachable, any_reachable
\* implies any_visible; the TrialResult has surplus >= 0 when reachable_any
\* holds, and reachable_any when surplus > 0.  At min_dist = reach either
\* answer occurs.
C26_Reachable ==
    fout # None =>
        /\ fout[1].any_reachable
               => (IsFinite(fout[1].min_dist) /\ fout[1].min_dist <= fin[1].reach)
        /\ (IsFinite(fout[1].min_dist) /\ fout[1].min_dist < fin[1].reach)
               => fout[1].any_reachable
        /\ fout[1].any_reachable => fout[1].any_visible
        /\ eval_trial.reachable_any => eval_trial.surplus >= 0
        /\ eval_trial.surplus > 0 => eval_trial.reachable_any

\* the nearest visible point is a little beyond reach and min_dist, the
\* rounded root, equals reach: surplus is 0 and nothing is reachable
C26_Witness ==
    /\ fout # None
    /\ fout[1].any_visible
    /\ fout[1].min_dist = fin[1].reach
    /\ ~fout[1].any_reachable
    /\ eval_trial.surplus = 0

(***************************************************************************)
(* SpecProgress: one run_sim call with many trials, with and without a     *)
(* progress callback                                                       *)
(***************************************************************************)
MaxProgressTrials == 400

ProgressTrials == {3, MaxProgressTrials - 1, MaxProgressTrials}

InitProgress ==
    /\ InitHeap
    /\ pc = "call"
    /\ \E t \in ProgressTrials, cb \in BOOLEAN :
          args = [world |-> world, jitter |-> JitterSpec(<<0, 0, 0>>, 1),
                  cfg |-> SimConfig(t, 1), has_stop |-> FALSE, has_cb |-> cb]
    /\ stop = FALSE
    /\ loc = NoLoc
    /\ res_ab = <<>>
    /\ ret = None
    /\ progress = <<>>
    /\ hist = NoHist
    /\ worker_ref = FALSE /\ queue = <<>> /\ zombies = 0
    /\ cache = <<>> /\ ref = None /\ fin = None /\ fout = None
    /\ snap0 = Some(world_value(world, players, dicts))

NextProgress ==
    \/ BeginAB /\ RunFrame
    \/ BeginBA /\ RunFrame
    \/ TrialStep /\ RunFrame
    \/ MidContinue /\ RunFrame
    \/ Finish /\ RunFrame

SpecProgress == InitProgress /\ [][NextProgress]_vars

\* the progress_cb calls of one direction, in order
calls_of(label) ==
    LET is(r) == r.label = label
    IN  SelectSeq(progress, is)

\* the number of trials a direction has completed so far
completed_ab ==
    IF pc = "call" THEN 0 ELSE IF pc = "ab" THEN loc.i ELSE Len(res_ab)
completed_ba ==
    IF pc = "ba" THEN loc.i
    ELSE IF pc = "fin" THEN Len(loc.results)
    ELSE IF pc = "ret" THEN Len(ret[1].res_ba)
    ELSE 0

\* the calls due for the first n trials of a direction: one for each trial
\* index i with i % max(1, trials // 200) = 0 or i = trials - 1, carrying
\* i + 1 and trials
calls_due(n, trials) ==
    LET due(k) == \/ (k - 1) % (IF trials \div 200 > 1 THEN trials \div 200 ELSE 1) = 0
                  \/ k - 1 = trials - 1
        ks == SelectSeq([k \in 1..n |-> k], due)
    IN  [j \in 1..Len(ks) |-> <<ks[j], trials>>]

calls_made(label) ==
    LET c == calls_of(label)
    IN  [j \in 1..Len(c) |-> <<c[j].done, c[j].total>>]

\* C6: with a callback, a direction calls it for trial index i exactly when
\* i % max(1, trials // 200) = 0 or i = trials - 1, with i + 1 completed of
\* trials; the final trial is always reported, completed = total.  Without a
\* callback nothing is reported.
C6_ProgressStride ==
    /\ args.has_cb =>
          /\ calls_made("A->B") = calls_due(completed_ab, args.cfg.trials)
          /\ calls_made("B->A") = calls_due(completed_ba, args.cfg.trials)
          /\ completed_ab = args.cfg.trials =>
                calls_made("A->B")[Len(calls_made("A->B"))]
                    = <<args.cfg.trials, args.cfg.trials>>
          /\ completed_ba = args.cfg.trials =>
                calls_made("B->A")[Len(calls_made("B->A"))]
                    = <<args.cfg.trials, args.cfg.trials>>
    /\ ~args.has_cb => progress = <<>>

\* a complete run whose stride is 2 and whose last trial index is odd:
\* only the final-trial clause reports it
C6_Witness ==
    /\ pc = "ret"
    /\ args.has_cb
    /\ stride(args.cfg.trials) > 1
    /\ (args.cfg.trials - 1) % stride(args.cfg.trials) # 0
    /\ Len(ret[1].res_ba) = args.cfg.trials
    /\ calls_made("B->A")[Len(calls_made("B->A"))] = <<args.cfg.trials, args.cfg.trials>>
    /\ Len(calls_made("A->B")) = stride_div + 1

(***************************************************************************)
(* SpecSnapshot: the main window edits the live World while the worker     *)
(* thread runs run_sim on the clone _start_sim made                        *)
(***************************************************************************)
\* the block coordinates the panel can hold: a free cell between the players
\* and the cell under B's raised position
PanelKeys == BlockKeys \cup {<<2, 0, 0>>}

\* the jitter and trial count the panel holds
PanelJitter == JitterSpec(<<25, 0, 25>>, 1)

\* the lru_cache after _sync_view's two preview evaluations at resolution n
sync_view_cache(ps, w, n) ==
    cache_after(
        cache_after(cache, surface_key(aabb_at(ps[w.player_b], ps[w.player_b].pos), n)),
        surface_key(aabb_at(ps[w.player_a], ps[w.player_a].pos), n))

\* World.set_player_pos on the heap h = [players, dicts]
set_player_pos(h, w, who, pos) ==
    LET r == IF who = "A" THEN w.player_a ELSE w.player_b
        ps == [h.players EXCEPT ![r].pos = pos]
    IN  [players |-> ps,
         dicts |-> [h.dicts EXCEPT ![w.blocks] =
                       ensure_support_under(@, ps[r], w.ground_y)]]

\* World.rebuild_supports on the heap
rebuild_supports(h, w) ==
    [players |-> h.players,
     dicts |-> [h.dicts EXCEPT ![w.blocks] =
                   ensure_support_under(
                       ensure_support_under(@, h.players[w.player_a], w.ground_y),
                       h.players[w.player_b], w.ground_y)]]

\* the heap after the World calls of _apply_positions (lines 273-278)
positions_applied(h, w, a, b, cleanup) ==
    LET h2 == set_player_pos(set_player_pos(h, w, "A", a), w, "B", b)
    IN  IF cleanup
        THEN [players |-> h2.players,
              dicts |-> [h2.dicts EXCEPT ![w.blocks] =
                            cleanup_unused_auto_supports(@, h2.players[w.player_a],
                                h2.players[w.player_b], w.ground_y)]]
        ELSE h2

\* whether the thread of the worker the window refers to is running
worker_running == worker_ref /\ pc \notin {"idle", "ret"}

LiveFrame == UNCHANGED <<world, uiVars, runVars, ref, snap0, funVars>>

\* MainWindow._apply_positions
ApplyPositionsTo(h, n) ==
    /\ players' = h.players
    /\ dicts' = h.dicts
    /\ cache' = sync_view_cache(h.players, world, n)

ApplyPositions ==
    /\ \E a \in PosA, b \in PosB, cleanup \in BOOLEAN, n \in 1..MaxSurface :
          ApplyPositionsTo(
              positions_applied([players |-> players, dicts |-> dicts], world, a, b,
                                cleanup), n)
    /\ LiveFrame

\* MainWindow._add_block
AddBlock ==
    /\ \E k \in PanelKeys, n \in 1..MaxSurface :
          /\ dicts' = [dicts EXCEPT ![world.blocks] = add_block(@, k, TRUE)]
          /\ cache' = sync_view_cache(players, world, n)
    /\ UNCHANGED players
    /\ LiveFrame

\* MainWindow._remove_block
RemoveBlock ==
    /\ \E k \in PanelKeys, n \in 1..MaxSurface :
          /\ dicts' = [dicts EXCEPT ![world.blocks] = remove_block(@, k)]
          /\ cache' = sync_view_cache(players, world, n)
    /\ UNCHANGED players
    /\ LiveFrame

\* World.rebuild_supports called on the live World
RebuildSupports ==
    /\ dicts' = rebuild_supports([players |-> players, dicts |-> dicts], world).dicts
    /\ UNCHANGED <<players, cache>>
    /\ LiveFrame

\* lines 335-343 of _start_sim: c is the clone of the live World in the heap
\* h the _apply_positions call left
StartWorker(h, c, n) ==
    /\ players' = c.players
    /\ dicts' = c.dicts
    /\ cache' = sync_view_cache(h.players, world, n)
    /\ snap0' = Some(world_value(world, h.players, h.dicts))
    /\ args' = [world |-> c.world, jitter |-> PanelJitter,
                cfg |-> SimConfig(MaxTrials, n), has_stop |-> TRUE, has_cb |-> TRUE]

StartCloned(h, n) ==
    StartWorker(h, clone(world, h.players, h.dicts, 3, 4, 2), n)

\* MainWindow._start_sim
StartSim ==
    /\ ~worker_running
    /\ \E a \in PosA, b \in PosB, cleanup \in BOOLEAN, n \in 1..MaxSurface :
          StartCloned(positions_applied([players |-> players, dicts |-> dicts], world,
                                        a, b, cleanup), n)
    /\ worker_ref' = TRUE
    /\ stop' = FALSE
    /\ pc' = "call"
    /\ ret' = None
    /\ progress' = <<>>
    /\ hist' = NoHist
    /\ UNCHANGED <<world, queue, zombies, loc, res_ab, ref, funVars>>

\* MainWindow._stop_sim
StopSim ==
    /\ worker_ref
    /\ ~stop
    /\ stop' = TRUE
    /\ UNCHANGED <<heapVars, uiVars, pc, args, loc, res_ab, ret, progress, cache,
                   hist, ref, snap0, funVars>>

NextSnapshot ==
    \/ RebuildSupports
    \/ ApplyPositions
    \/ AddBlock
    \/ RemoveBlock
    \/ StartSim
    \/ StopSim
    \/ RunStep

SpecSnapshot == InitRunSpec /\ [][NextSnapshot]_vars

\* the worker's run is between its start and the return of run_sim
run_started == worker_ref /\ pc # "idle"

\* C5: whatever the main window does to the live World while run_sim works
\* on the clone, the clone keeps the player positions, player attributes and
\* block keys it was made with, and the run returns what a run on that value
\* returns when nothing is edited.
C5_SnapshotIsolation ==
    run_started =>
        /\ world_value(args.world, players, dicts) = snap0[1]
        /\ pc = "ret" =>
              /\ ret[1].res_ab = expected_results(snap0[1], "ab", args.jitter, args.cfg,
                                                  Len(ret[1].res_ab))
              /\ ret[1].res_ba = expected_results(snap0[1], "ba", args.jitter, args.cfg,
                                                  Len(ret[1].res_ba))
              /\ ret[1].stats_ab = summarize(ret[1].res_ab, args.cfg.reach)
              /\ ret[1].stats_ba = summarize(ret[1].res_ba, args.cfg.reach)
              /\ Uncancelled =>
                    /\ Len(ret[1].res_ab) = args.cfg.trials
                    /\ Len(ret[1].res_ba) = args.cfg.trials

\* a run went through both directions while B was moved and the block set
\* of the live World was edited
C5_Witness ==
    /\ run_started
    /\ pc = "ret"
    /\ Uncancelled
    /\ players[world.player_b].pos # snap0[1].player_b.pos
    /\ DOMAIN dicts[world.blocks] # snap0[1].keys
    /\ \E k \in BlockKeys : (k \in DOMAIN dicts[world.blocks]) # (k \in snap0[1].keys)
    /\ ret[1].res_ab # ret[1].res_ba

(***************************************************************************)
(* SpecWorld: the methods of one World called in any order                 *)
(***************************************************************************)
\* foot positions: (0.5, 0, 0.5), (-0.5, 1, 0.5), (1.5, 2.2, -0.4), (-1, 1, 0.5)
WorldPositions == {<<25, 0, 25>>, <<0 - 25, 50, 25>>, <<75, 110, 0 - 20>>, <<0 - 50, 50, 25>>}
WorldKeys == {<<0 - 1, 0, 0>>, <<1, 1, 0>>}
GroundLevels == {0, 0 - 1}

InitWorld ==
    /\ \E a \in WorldPositions, b \in WorldPositions, g \in GroundLevels :
          /\ players = (1 :> Player("A", a)) @@ (2 :> Player("B", b))
          /\ dicts = (1 :> ensure_support_under(
                              ensure_support_under(<<>>, Player("A", a), g),
                              Player("B", b), g))
          /\ world = [player_a |-> 1, player_b |-> 2, blocks |-> 1, ground_y |-> g]
    /\ InitRun
    /\ InitRest

\* what the last call was and the World it was made on
called(op, who, pos) ==
    [op |-> op, who |-> who, pos |-> pos, blocks |-> dicts[world.blocks],
     players |-> players]

WorldFrame == UNCHANGED <<world, uiVars, runVars, cache, snap0, funVars>>

\* World.set_player_pos
SetPlayerPos ==
    /\ \E who \in {"A", "B"}, pos \in WorldPositions :
          /\ players' = set_player_pos([players |-> players, dicts |-> dicts], world,
                                       who, pos).players
          /\ dicts' = set_player_pos([players |-> players, dicts |-> dicts], world,
                                     who, pos).dicts
          /\ ref' = Some(called("set_player_pos", who, pos))
    /\ WorldFrame

\* World.add_block, by hand or not
WorldAddBlock ==
    /\ \E k \in WorldKeys, manual \in BOOLEAN :
          /\ dicts' = [dicts EXCEPT ![world.blocks] = add_block(@, k, manual)]
          /\ ref' = Some(called("add_block", "", k))
    /\ UNCHANGED players
    /\ WorldFrame

\* World.remove_block
WorldRemoveBlock ==
    /\ \E k \in WorldKeys :
          /\ dicts' = [dicts EXCEPT ![world.blocks] = remove_block(@, k)]
          /\ ref' = Some(called("remove_block", "", k))
    /\ UNCHANGED players
    /\ WorldFrame

\* World.cleanup_unused_auto_supports
CleanupUnusedAutoSupports ==
    /\ dicts' = [dicts EXCEPT ![world.blocks] =
                    cleanup_unused_auto_supports(@, players[world.player_a],
                                                 players[world.player_b], world.ground_y)]
    /\ ref' = Some(called("cleanup_unused_auto_supports", "", <<>>))
    /\ UNCHANGED players
    /\ WorldFrame

NextWorld ==
    \/ SetPlayerPos
    \/ WorldAddBlock
    \/ WorldRemoveBlock
    \/ CleanupUnusedAutoSupports

SpecWorld == InitWorld /\ [][NextWorld]_vars

world_blocks == dicts[world.blocks]

\* the voxels under the cell holding the foot point pos, from the ground up
cells_under_foot(pos) ==
    {<<Floor(pos[1]), y, Floor(pos[3])>> : y \in world.ground_y..(Floor(pos[2]) - 1)}

\* C28: after set_player_pos(who, pos), every voxel of the column of the cell
\* holding the foot point, from y = ground_y up to the cell below the foot, is
\* a key of world.blocks, and every block there was before is still there with
\* its manual flag.
C28_SupportUnderFoot ==
    (ref # None /\ ref[1].op = "set_player_pos") =>
        /\ cells_under_foot(ref[1].pos) \subseteq DOMAIN world_blocks
        /\ \A k \in DOMAIN ref[1].blocks :
              k \in DOMAIN world_blocks /\ world_blocks[k] = ref[1].blocks[k]

\* the column _required_support_keys lists for the player p
in_support_column(k, p) ==
    /\ k[1] = Trunc(p.pos[1])
    /\ k[3] = Trunc(p.pos[3])
    /\ world.ground_y <= k[2]
    /\ k[2] <= Trunc(p.pos[2]) - 1

required_support(k) ==
    in_support_column(k, players[world.player_a]) \/ in_support_column(k, players[world.player_b])

MaxZombies == 2

\* QThread.isRunning of the worker made last: true from start() until run()
\* has returned, which is after finished_payload was emitted
thread_running == pc \notin {"idle", "finished"}

\* ControlPanel.set_running: _start_sim disables Start and enables Stop in the
\* call that assigns _worker, _on_finished does the reverse in the call that
\* clears it
btn_start_enabled == ~worker_ref
btn_stop_enabled == worker_ref

\* a click on Start: start_clicked is connected to _start_sim
StartClicked ==
    /\ btn_start_enabled
    /\ zombies < MaxZombies
    /\ StartSim

\* a click on Stop: stop_clicked is connected to _stop_sim
StopClicked ==
    /\ btn_stop_enabled
    /\ StopSim

\* SimWorker.run, line 41: run_sim has returned and the payload is queued for
\* the main thread
EmitFinished ==
    /\ pc = "ret"
    /\ queue' = Append(queue, ret[1])
    /\ pc' = "emitted"
    /\ UNCHANGED <<heapVars, worker_ref, zombies, args, stop, loc, res_ab, ret,
                   progress, cache, hist, ref, snap0, funVars>>

\* run() returns and the thread ends
ThreadExit ==
    /\ pc = "emitted"
    /\ pc' = "finished"
    /\ UNCHANGED <<heapVars, uiVars, args, stop, loc, res_ab, ret, progress, cache,
                   hist, ref, snap0, funVars>>

\* the thread of a worker the window no longer refers to ends
ZombieExit ==
    /\ zombies > 0
    /\ zombies' = zombies - 1
    /\ UNCHANGED <<heapVars, worker_ref, queue, runVars, cache, ref, snap0, funVars>>

\* MainWindow._on_finished, run by the main thread for the payload at the head
\* of the queue.  A payload is queued by the last statement of run(), so the
\* thread of the worker dropped here has at most its return left to do.
OnFinished ==
    /\ queue # <<>>
    /\ queue' = Tail(queue)
    /\ worker_ref' = FALSE
    /\ zombies' = IF thread_running THEN zombies + 1 ELSE zombies
    /\ pc' = "idle"
    /\ \E n \in 1..MaxSurface : cache' = sync_view_cache(players, world, n)
    /\ UNCHANGED <<heapVars, args, stop, loc, res_ab, ret, progress, hist, ref,
                   snap0, funVars>>

NextWorker ==
    \/ StartClicked
    \/ StopClicked
    \/ RunStep
    \/ EmitFinished
    \/ ThreadExit
    \/ ZombieExit
    \/ OnFinished

SpecWorker == InitRunSpec /\ [][NextWorker]_vars

\* the number of SimWorker threads running
workers_running == zombies + (IF thread_running THEN 1 ELSE 0)

at_most_one_worker == workers_running <= 1

\* a step that starts a worker's thread
worker_started == pc' = "call" /\ pc # "call"

start_while_running_starts_nothing == thread_running => ~worker_started

\* the number of trials evaluated so far in this run
trials_evaluated == Len(hist.draws)

\* once the flag of a running worker is set, that worker evaluates no trial
stop_not_lost ==
    (stop /\ pc \in {"call", "ab", "mid", "ba0", "ba", "fin"}) =>
        (pc' \in {"ab", "mid", "ba0", "ba", "fin", "ret"} => trials_evaluated' = trials_evaluated)

reference_cleared_after_thread_end == (worker_ref /\ ~worker_ref') => ~thread_running

\* C30: at most one SimWorker thread runs at any time; a start request while a
\* worker runs starts nothing; once Stop was clicked the running worker
\* evaluates no further trial; and _on_finished clears the reference only of
\* a worker whose thread has ended.
C30_OneWorker ==
    /\ []at_most_one_worker
    /\ [][start_while_running_starts_nothing]_vars
    /\ [][stop_not_lost]_vars
    /\ [][reference_cleared_after_thread_end]_vars

====
